---- MODULE Spec2Model ----
(***************************************************************************)
(* Model of the exhaustive query splitter                                  *)
(* (src/pipeline/exhaustive_splitter.py, class ExhaustiveQuerySplitter).   *)
(*                                                                         *)
(* One behaviour is one call of split_exhaustively.  Every call of         *)
(* _get_hit_count is one step: the count it returns is chosen by the       *)
(* search engine, so it is a nondeterministic choice among the counts the  *)
(* engine of this run can answer for that kind of query (the variable      *)
(* oracle).  Query strings are modelled as strings, built exactly as the   *)
(* f-strings of the source build them.                                     *)
(***************************************************************************)
EXTENDS Integers, Sequences, FiniteSets, TLC

VARIABLES
    target_size,        \* self.target_size
    year_range,         \* argument year_range: <<>> is None, else <<start, end>>
    modifiers,          \* argument modifiers: [keywords, entities], lists of texts
    oracle,             \* the counts the search engine may answer, per kind of query
    pc,                 \* position inside split_exhaustively
    base_hits,          \* local base_hits of split_exhaustively
    prepared_modifiers, \* local prepared_modifiers
    modifier_map,       \* local modifier_map: [keywords, entities], ordered dicts
    strategy,           \* local strategy of _create_split_strategy
    remaining_coverage, \* local remaining_coverage
    used_modifiers,     \* local used_modifiers (a set)
    ki, ei,             \* loop positions (keyword loop / entity loop, 1-based)
    final_queries,      \* local final_queries of _execute_splits
    coverage_tracker,   \* self.coverage_tracker: set of [query, hits, modifiers]
    results,            \* value returned by split_exhaustively
    calls,              \* every query string sent to the counter, in order
    disk,               \* the files written so far, in order: [file, content]
    \* QueryGenerator.generate_subqueries
    g_modifiers,        \* argument modifiers: [keywords, entities], lists of [text, score]
    g_start_year,       \* argument start_year (0: None)
    g_end_year,         \* argument end_year (0: None)
    g_ranges_given,     \* argument year_ranges is not None
    g_year_ranges,      \* year_ranges: the argument, then the list that is used
    g_max_queries,      \* argument max_queries
    g_all_modifiers,    \* local all_modifiers
    g_queries,          \* local queries
    g_year, g_combo,    \* loop positions (year range / modifier combination)
    g_pc,               \* position inside generate_subqueries
    \* ScholarHitsCounter
    caller,             \* who runs the counter: count_hits or _get_hit_count
    counter_queries,    \* the queries to count, in order
    counter_i,          \* i of count_hits: queries counted so far
    retry_count,        \* local retry_count of _count_single_query
    counter_result,     \* local result of _count_single_query
    counter_results,    \* self.results
    events,             \* calls, attempts, sleeps, saves and returns, in order
    counter_pc,         \* position inside the counter
    \* main of main_exhaustive
    start_year,         \* args.start_year
    end_year,           \* args.end_year
    year,               \* loop variable year
    all_results,        \* local all_results: [year, results] per processed year
    final_report,       \* local final_report
    csv_data,           \* local csv_data: the rows of the CSV export
    main_pc             \* position inside main

splitter_vars ==
    <<target_size, year_range, modifiers, oracle, pc, base_hits,
      prepared_modifiers, modifier_map, strategy, remaining_coverage,
      used_modifiers, ki, ei, final_queries, coverage_tracker, results, calls,
      disk>>

generator_vars ==
    <<g_modifiers, g_start_year, g_end_year, g_ranges_given, g_year_ranges,
      g_max_queries, g_all_modifiers, g_queries, g_year, g_combo, g_pc>>

counter_vars ==
    <<caller, counter_queries, counter_i, retry_count, counter_result,
      counter_results, events, counter_pc>>

main_vars ==
    <<start_year, end_year, year, all_results, final_report, csv_data, main_pc>>

vars == <<splitter_vars, generator_vars, counter_vars, main_vars>>

-----------------------------------------------------------------------------
(* Bounds of the model *)

\* the counts of the general search engine are 0..MaxHit
MaxHit == 4
\* at most this many modifiers (keywords and entities together) in a general session
MaxModifiers == 3
\* at most this many characters in a general modifier text of the generator
MaxChars == 2
\* at most this many queries in one run of the counter
MaxQueries == 2
\* at most this many years in one run of main
MaxYears == 2
\* at most this many years between start_year and end_year of the generator
MaxYearSpan == 22

(* Program constants *)

\* modifiers['keywords'][:30], modifiers['entities'][:30]
MapLimit == 30
\* [...][:10] for unused_keywords and unused_entities
ComboLimit == 10
\* list(used_modifiers)[:5]
ExclusionLimit == 5

NoValue == -1
base_query == "Q"

-----------------------------------------------------------------------------
(* Helpers on sequences *)

Range(s) == {s[i] : i \in 1..Len(s)}

Take(s, n) == SubSeq(s, 1, IF n < Len(s) THEN n ELSE Len(s))

RECURSIVE SumOf(_, _)
SumOf(s, field) ==
    IF s = <<>> THEN 0 ELSE s[1][field] + SumOf(Tail(s), field)

\* Python's sorted(..., reverse=True): descending by key, equal keys keep
\* their original relative order.  Gt(a, b) is "key(a) > key(b)".
SortedReverse(s, Gt(_, _)) ==
    LET n == Len(s)
        rank(i) == 1 + Cardinality({j \in 1..n :
                        Gt(s[j], s[i]) \/ (~Gt(s[i], s[j]) /\ j < i)})
    IN [p \in 1..n |-> s[CHOOSE i \in 1..n : rank(i) = p]]

\* every arrangement without repetition of n elements of the set S
RECURSIVE Arrangements(_, _)
Arrangements(S, n) ==
    IF n = 0 \/ S = {} THEN {<<>>}
    ELSE UNION {{<<x>> \o t : t \in Arrangements(S \ {x}, n - 1)} : x \in S}

\* ' '.join(list of strings)
RECURSIVE Join(_)
Join(s) ==
    IF s = <<>> THEN ""
    ELSE IF Len(s) = 1 THEN s[1]
    ELSE s[1] \o " " \o Join(Tail(s))

-----------------------------------------------------------------------------
(* Strings of the program *)

\* number of whitespace-separated words of a modifier text: len(text.split())
WordCount(text) ==
    IF text \in {"new york city"} THEN 3
    ELSE IF text \in {"machine learning"} THEN 2
    ELSE 1

\* f'{base_query} AND "{modifier}"'
SingleQuery(modifier) == base_query \o " AND \"" \o modifier \o "\""

\* f'{base_query} AND "{keyword}" AND "{entity}"'
CombinationQuery(keyword, entity) ==
    base_query \o " AND \"" \o keyword \o "\" AND \"" \o entity \o "\""

\* f'NOT "{mod}"'
NotClause(mod) == "NOT \"" \o mod \o "\""

\* f"{base_query} {' '.join(exclusions)}"
ExclusionQuery(exclusions) == base_query \o " " \o Join(exclusions)

\* _get_hit_count: the string handed to the counter
YearAnnotated(query, yr) ==
    IF yr # <<>>
    THEN query \o " after:" \o ToString(yr[1]) \o " before:" \o ToString(yr[2])
    ELSE query

\* result.get('hit_count', 0): the count _get_hit_count returns
HitCount(result) == result.hit_count

\* one entry of the log of counter calls: the string sent, the call site,
\* and the count and the status that came back
Call(query, yr, site, result) ==
    [query |-> YearAnnotated(query, yr), site |-> site,
     hits |-> HitCount(result), status |-> result.status]

\* the result dicts _count_single_query can return at a call site: a
\* success with one of the engine's counts, or, where the engine can fail,
\* an error, whose hit_count is the initial 0
Answers(site) ==
    {[hit_count |-> h, status |-> "success"] : h \in oracle[site]}
        \cup (IF site \in oracle.failing
              THEN {[hit_count |-> 0, status |-> "error"]}
              ELSE {})

-----------------------------------------------------------------------------
(* _prepare_modifiers *)

IsUniOrBigram(text) == WordCount(text) <= 2

\* keywords keep only uni/bi-grams; entities are copied as they are
PrepareModifiers(mods) ==
    [keywords |-> SelectSeq(mods.keywords, IsUniOrBigram),
     entities |-> mods.entities]

-----------------------------------------------------------------------------
(* _build_modifier_map *)

\* d[key] = value on an insertion-ordered dict: a present key keeps its place
DictSet(d, entry) ==
    IF \E i \in 1..Len(d) : d[i].modifier = entry.modifier
    THEN [i \in 1..Len(d) |->
             IF d[i].modifier = entry.modifier THEN entry ELSE d[i]]
    ELSE Append(d, entry)

\* 1 - (hits / base), kept as the exact fraction (base - hits) / base
ReductionRate(hits, base) == [num |-> base - hits, den |-> base]

\* a['reduction_rate'] > b['reduction_rate'] (denominators are positive)
RateGreater(a, b) ==
    a.reduction_rate.num * b.reduction_rate.den
        > b.reduction_rate.num * a.reduction_rate.den

\* dict(sorted(items, key=reduction_rate, reverse=True))
SortByReductionRate(d) == SortedReverse(d, RateGreater)

\* the record stored for one tested modifier
Effectiveness(modifier, hits, base) ==
    [modifier |-> modifier, hits |-> hits,
     reduction_rate |-> ReductionRate(hits, base)]

-----------------------------------------------------------------------------
(* _create_split_strategy *)

\* (mutant) the upper bound is inclusive
EligibleInclusive(hits) == hits <= target_size /\ hits > 0

\* data['hits'] < self.target_size and data['hits'] > 0
Eligible(hits) == hits < target_size /\ hits > 0

PoolEntry(type, data) ==
    [type |-> type, modifier |-> data.modifier, hits |-> data.hits,
     reduction_rate |-> data.reduction_rate]

HasEligibleHits(data) == Eligible(data.hits)

\* all_modifiers before the sort: eligible keywords, then eligible entities
AllModifiers(map) ==
    LET kw  == SelectSeq(map.keywords, HasEligibleHits)
        ent == SelectSeq(map.entities, HasEligibleHits)
    IN [i \in 1..Len(kw) |-> PoolEntry("keyword", kw[i])]
       \o [i \in 1..Len(ent) |-> PoolEntry("entity", ent[i])]

HitsGreater(a, b) == a.hits > b.hits

\* the sequence s backwards
Reversed(s) == [i \in 1..Len(s) |-> s[Len(s) + 1 - i]]

\* (mutant) ascending sort followed by reverse(): equal hits swap places
SortByHitsThenReverse(pool) == SortedReverse(Reversed(pool), HitsGreater)

\* all_modifiers.sort(key=hits, reverse=True)
SortByHits(pool) == SortedReverse(pool, HitsGreater)

SingleCandidate(mod) ==
    [query |-> SingleQuery(mod.modifier), modifiers |-> <<mod.modifier>>,
     expected_hits |-> mod.hits, type |-> "single"]

\* (mutant) the loops stop only when more than the base count is covered
CoverageExceeded(remaining) == remaining < 0

\* if remaining_coverage <= 0: break
CoverageReached(remaining) == remaining <= 0

\* (mutant) the loop does not look at used_modifiers
RECURSIVE GreedyReusing(_, _)
GreedyReusing(pool, acc) ==
    IF pool = <<>> \/ CoverageReached(acc.remaining) THEN acc
    ELSE LET mod == pool[1] IN
         GreedyReusing(Tail(pool),
                       [strategy  |-> Append(acc.strategy, SingleCandidate(mod)),
                        remaining |-> acc.remaining - mod.hits,
                        used      |-> acc.used \cup {mod.modifier}])

\* the greedy loop over the sorted pool; acc = [strategy, remaining, used]
RECURSIVE Greedy(_, _)
Greedy(pool, acc) ==
    IF pool = <<>> \/ CoverageReached(acc.remaining) THEN acc
    ELSE LET mod == pool[1] IN
         IF mod.modifier \notin acc.used
         THEN Greedy(Tail(pool),
                     [strategy  |-> Append(acc.strategy, SingleCandidate(mod)),
                      remaining |-> acc.remaining - mod.hits,
                      used      |-> acc.used \cup {mod.modifier}])
         ELSE Greedy(Tail(pool), acc)

\* Strategy 1 as a whole
Phase1(map, hits) ==
    Greedy(SortByHits(AllModifiers(map)),
           [strategy |-> <<>>, remaining |-> hits, used |-> {}])

Keys(d) == [i \in 1..Len(d) |-> d[i].modifier]

\* (mutant) the unused lists are not filtered by used_modifiers
NotUsedUnfiltered(m) == m = m

NotUsed(m) == m \notin used_modifiers

\* [k for k in modifier_map['keywords'].keys() if k not in used_modifiers][:10]
UnusedKeywords == Take(SelectSeq(Keys(modifier_map.keywords), NotUsed), ComboLimit)

\* [e for e in modifier_map['entities'].keys() if e not in used_modifiers][:10]
UnusedEntities == Take(SelectSeq(Keys(modifier_map.entities), NotUsed), ComboLimit)

\* (mutant) a combination is accepted whatever its size
CombinationAcceptedUnbounded(hits) == 0 < hits

\* if 0 < hits < self.target_size
CombinationAccepted(hits) == 0 < hits /\ hits < target_size

CombinationCandidate(keyword, entity, hits) ==
    [query |-> CombinationQuery(keyword, entity),
     modifiers |-> <<keyword, entity>>,
     expected_hits |-> hits, type |-> "combination"]

\* list(used_modifiers)[:5]: a set has no order of its own, so every
\* arrangement of min(5, n) of its elements is a possible outcome
ExclusionChoices(used) ==
    Arrangements(used, IF Cardinality(used) < ExclusionLimit
                       THEN Cardinality(used) ELSE ExclusionLimit)

\* [f'NOT "{mod}"' for mod in ...]
Exclusions(mods) == [i \in 1..Len(mods) |-> NotClause(mods[i])]

\* (mutant) the exclusion query is held to the target size as well
ExclusionAcceptedUnderTarget(hits) == 0 < hits /\ hits < target_size

\* if hits > 0
ExclusionAccepted(hits) == hits > 0

ExclusionCandidate(exclusions, hits) ==
    [query |-> ExclusionQuery(exclusions), modifiers |-> exclusions,
     expected_hits |-> hits, type |-> "exclusion"]

-----------------------------------------------------------------------------
(* _execute_splits and _verify_coverage *)

\* (mutant) the id is the 0-based loop index
FinalQueryZeroBased(i, split, actual_hits) ==
    [id |-> i - 1, query |-> split.query, modifiers |-> split.modifiers,
     type |-> split.type, expected_hits |-> split.expected_hits,
     actual_hits |-> actual_hits]

FinalQuery(i, split, actual_hits) ==
    [id |-> i, query |-> split.query, modifiers |-> split.modifiers,
     type |-> split.type, expected_hits |-> split.expected_hits,
     actual_hits |-> actual_hits]

\* self.coverage_tracker[query] = {hits, modifiers}
TrackerSet(tracker, query, hits, mods) ==
    {e \in tracker : e.query # query}
        \cup {[query |-> query, hits |-> hits, modifiers |-> mods]}

UnderTarget(q) == q.actual_hits < target_size

\* a quotient kept exact: num / den
Fraction(num, den) == [num |-> num, den |-> den]

\* (mutant) the percentage is capped at 100
CoveragePercentageCapped(total_coverage, hits) ==
    IF hits > 0
    THEN Fraction((IF total_coverage > hits THEN hits ELSE total_coverage) * 100,
                  hits)
    ELSE Fraction(0, 1)

\* (total_coverage / base_hits * 100) if base_hits > 0 else 0
CoveragePercentage(total_coverage, hits) ==
    IF hits > 0 THEN Fraction(total_coverage * 100, hits) ELSE Fraction(0, 1)

VerifyCoverage(queries, hits) ==
    LET total_coverage == SumOf(queries, "actual_hits")
        actual == {queries[i].actual_hits : i \in 1..Len(queries)}
    IN [base_hits |-> hits,
        total_coverage |-> total_coverage,
        coverage_percentage |-> CoveragePercentage(total_coverage, hits),
        query_count |-> Len(queries),
        avg_hits_per_query |->
            IF queries # <<>> THEN Fraction(total_coverage, Len(queries))
            ELSE Fraction(0, 1),
        queries_under_target |-> Len(SelectSeq(queries, UnderTarget)),
        largest_query |->
            IF queries # <<>>
            THEN CHOOSE m \in actual : \A x \in actual : x <= m ELSE 0,
        smallest_query |->
            IF queries # <<>>
            THEN CHOOSE m \in actual : \A x \in actual : m <= x ELSE 0]

-----------------------------------------------------------------------------
(* The sessions the model runs *)

Sites == {"base", "modifier", "rebase", "combination", "exclusion", "execute"}

\* every count the general search engine can answer
Counts == 0..MaxHit

\* the target size of the general sessions: counts below, at and above it exist
GeneralTarget == MaxHit - 1

\* Engines: the counts the search engine may answer at each call site.  Each
\* engine leaves the answers open where one stage of the session decides, and
\* narrows them elsewhere, so that the state space stays a sum, not a product.

\* open while the effectiveness map is built (the base count may drift or fail)
MapEngine ==
    [base |-> Counts, modifier |-> {0, 1, GeneralTarget},
     rebase |-> {0, 1, MaxHit},
     combination |-> {0}, exclusion |-> {MaxHit}, execute |-> {1},
     failing |-> {}]

\* open while the strategy is built
StrategyEngine ==
    [base |-> {MaxHit}, modifier |-> Counts, rebase |-> {MaxHit},
     combination |-> {0, 1, GeneralTarget}, exclusion |-> {0, MaxHit},
     execute |-> {1}, failing |-> {}]

\* open while the strategy is executed
ExecuteEngine ==
    [base |-> {MaxHit}, modifier |-> {1, GeneralTarget}, rebase |-> {MaxHit},
     combination |-> {1}, exclusion |-> {MaxHit},
     execute |-> {0, GeneralTarget, MaxHit}, failing |-> {}]

\* the texts of n keywords and of n entities
KeywordTexts(n) == [i \in 1..n |-> "k" \o ToString(i)]
\* the second entity has the text of the first keyword
EntityTexts(n) == [i \in 1..n |-> IF i = 2 THEN "k1" ELSE "e" \o ToString(i)]

\* keyword and entity lists of at most MaxModifiers texts together
GeneralModifiers ==
    {[keywords |-> KeywordTexts(a), entities |-> EntityTexts(b)] :
        <<a, b>> \in {ab \in (0..MaxModifiers) \X (0..MaxModifiers) :
                         ab[1] + ab[2] <= MaxModifiers}}

Session(target, years, mods, engine) ==
    [target_size |-> target, year_range |-> years, modifiers |-> mods,
     oracle |-> engine]

\* main_exhaustive passes (year, year); other callers may pass a range or None
GeneralSessions ==
    {Session(GeneralTarget, <<2020, 2020>>, m, MapEngine) : m \in GeneralModifiers}
    \cup {Session(GeneralTarget, <<>>, m, StrategyEngine) : m \in GeneralModifiers}
    \cup {Session(GeneralTarget, <<2020, 2021>>, m, ExecuteEngine) :
              m \in GeneralModifiers}

\* an engine with one fixed answer per call site, except for the exclusion query
FixedEngine(base, single, combination, exclusion, execute) ==
    [base |-> {base}, modifier |-> {single}, rebase |-> {base},
     combination |-> {combination}, exclusion |-> exclusion,
     execute |-> {execute}, failing |-> {}]

\* the end-to-end scenario: 5000 base hits, target size 900, n modifiers of 800
EndToEndSessions ==
    {Session(900, <<>>, m, FixedEngine(5000, 800, 0, {0, 800}, 800)) :
        m \in {[keywords |-> KeywordTexts(3), entities |-> <<"e1", "e3">>],
                [keywords |-> KeywordTexts(4), entities |-> <<"e1", "e3", "e4", "e5">>]}}

\* more modifiers than the limits of Strategy 2 and Strategy 3 take
LongSessions ==
    {\* 11 keywords and 11 entities, none of them eligible
     Session(GeneralTarget, <<2020, 2020>>,
             [keywords |-> KeywordTexts(ComboLimit + 1),
              entities |-> EntityTexts(ComboLimit + 1)],
             FixedEngine(MaxHit, 0, 0, {MaxHit}, 1)),
     \* 6 modifiers, all selected, coverage still missing
     Session(3, <<>>,
             [keywords |-> KeywordTexts(ExclusionLimit - 2),
              entities |-> <<"e1", "e3", "e4">>],
             FixedEngine(ExclusionLimit + 2, 1, 0, {0, 9}, 1))}

\* two keywords and two entities, none eligible alone: four pairs to combine
PairSessions ==
    {Session(GeneralTarget, <<2020, 2021>>,
             [keywords |-> KeywordTexts(2), entities |-> <<"e1", "e3">>],
             [base |-> {MaxHit}, modifier |-> {0}, rebase |-> {MaxHit},
              combination |-> Counts, exclusion |-> {0, MaxHit},
              execute |-> {1}, failing |-> {}])}

\* phrases of more than two words among the extracted modifiers
PhraseSessions ==
    {Session(GeneralTarget, <<>>,
             [keywords |-> <<"new york city", "machine learning">>,
              entities |-> <<"new york city">>],
             ExecuteEngine)}

\* a negative target size with an engine that finds nothing: the only way
\* into the later steps with base_hits = 0
EmptySessions ==
    {Session(0 - 1, <<>>, [keywords |-> <<>>, entities |-> <<>>],
             FixedEngine(0, 0, 0, {0}, 0))}

\* more modifiers of each kind than _build_modifier_map tests
ManySessions ==
    {Session(GeneralTarget, <<2020, 2020>>,
             [keywords |-> KeywordTexts(MapLimit + 1),
              entities |-> EntityTexts(MapLimit + 1)],
             FixedEngine(MaxHit, 1, 1, {MaxHit}, 1))}

\* an engine whose counter can end in Error status at every call site
FailingEngine ==
    [base |-> {MaxHit}, modifier |-> {1}, rebase |-> {MaxHit},
     combination |-> {1}, exclusion |-> {MaxHit}, execute |-> {1},
     failing |-> Sites]

ErrorSessions ==
    {Session(GeneralTarget, <<2020, 2020>>,
             [keywords |-> KeywordTexts(1), entities |-> EntityTexts(1)],
             FailingEngine)}

\* a text that is a keyword and an entity at once, next to a keyword and an
\* entity of their own
SharedTextSessions ==
    {Session(GeneralTarget, <<2020, 2020>>,
             [keywords |-> KeywordTexts(2), entities |-> EntityTexts(2)],
             [base |-> {MaxHit}, modifier |-> {0, 1}, rebase |-> {MaxHit},
              combination |-> {1}, exclusion |-> {MaxHit}, execute |-> {1},
              failing |-> {}])}

\* the default target size of ExhaustiveQuerySplitter
DefaultTargetSize == 900

\* the counts ScholarHitsCounter can return: 0, a count under its limit of
\* 1000 results, and the limit
ScholarCounts == {0, 1, DefaultTargetSize + 1, 1000}

\* sessions on ScholarHitsCounter with the default target size
ScholarSessions ==
    {Session(DefaultTargetSize, <<2020, 2020>>,
             [keywords |-> KeywordTexts(1), entities |-> EntityTexts(1)],
             [base |-> ScholarCounts, modifier |-> {1, 1000}, rebase |-> {1000},
              combination |-> {1}, exclusion |-> {1000}, execute |-> {1},
              failing |-> {"base"}])}

Sessions ==
    GeneralSessions \cup EndToEndSessions \cup LongSessions
        \cup PairSessions \cup PhraseSessions \cup EmptySessions
        \cup ManySessions \cup ErrorSessions \cup SharedTextSessions
        \cup ScholarSessions

\* the locals of split_exhaustively before its first step
NotStarted ==
    /\ base_hits = NoValue
    /\ prepared_modifiers = [keywords |-> <<>>, entities |-> <<>>]
    /\ modifier_map = [keywords |-> <<>>, entities |-> <<>>]
    /\ strategy = <<>>
    /\ remaining_coverage = NoValue
    /\ used_modifiers = {}
    /\ ki = 1
    /\ ei = 1
    /\ final_queries = <<>>
    /\ coverage_tracker = {}
    /\ results = [returned |-> FALSE]
    /\ calls = <<>>
    /\ disk = <<>>

\* no session of the splitter is running
SplitterIdle ==
    /\ target_size = 0
    /\ year_range = <<>>
    /\ modifiers = [keywords |-> <<>>, entities |-> <<>>]
    /\ oracle = <<>>
    /\ pc = "idle"
    /\ NotStarted

\* generate_subqueries is not called
GeneratorIdle ==
    /\ g_modifiers = [keywords |-> <<>>, entities |-> <<>>]
    /\ g_start_year = 0
    /\ g_end_year = 0
    /\ g_ranges_given = TRUE
    /\ g_year_ranges = <<>>
    /\ g_max_queries = 0
    /\ g_all_modifiers = <<>>
    /\ g_queries = <<>>
    /\ g_year = 1
    /\ g_combo = 1
    /\ g_pc = "idle"

\* the counter is not run on its own
CounterIdle ==
    /\ caller = "none"
    /\ counter_queries = <<>>
    /\ counter_i = 0
    /\ retry_count = 0
    /\ counter_result = <<>>
    /\ counter_results = <<>>
    /\ events = <<>>
    /\ counter_pc = "idle"

\* main is not running: split_exhaustively is called on its own
MainIdle ==
    /\ start_year = 0
    /\ end_year = 0
    /\ year = 0
    /\ all_results = <<>>
    /\ final_report = <<>>
    /\ csv_data = <<>>
    /\ main_pc = "idle"

Init ==
    /\ \E s \in Sessions :
          /\ target_size = s.target_size
          /\ year_range = s.year_range
          /\ modifiers = s.modifiers
          /\ oracle = s.oracle
    /\ pc = "start"
    /\ NotStarted
    /\ GeneratorIdle
    /\ CounterIdle
    /\ MainIdle

inputs == <<target_size, year_range, modifiers, oracle>>

-----------------------------------------------------------------------------
(* split_exhaustively, steps 1 and 2 *)

\* the dict returned when the base query is already small enough
CompleteResult(hits) ==
    [returned |-> TRUE, status |-> "complete", total_hits |-> hits,
     queries |-> <<[query |-> base_query, hits |-> hits]>>, coverage |-> 100]

\* (mutant) the base query must be strictly under the target size
UnderTargetSizeStrict(hits) == hits < target_size

\* if base_hits <= self.target_size
UnderTargetSize(hits) == hits <= target_size

CheckBaseQuery ==
    /\ pc = "start"
    /\ \E result \in Answers("base") :
          LET hits == HitCount(result) IN
          /\ calls' = Append(calls, Call(base_query, year_range, "base", result))
          /\ base_hits' = hits
          /\ IF UnderTargetSize(hits)
             THEN /\ results' = CompleteResult(hits)
                  /\ pc' = "done"
                  /\ UNCHANGED prepared_modifiers
             ELSE /\ prepared_modifiers' = PrepareModifiers(modifiers)
                  /\ pc' = "build_map"
                  /\ UNCHANGED results
    /\ UNCHANGED <<inputs, generator_vars, counter_vars, main_vars,
                   disk, modifier_map, strategy, remaining_coverage,
                   used_modifiers, ki, ei, final_queries, coverage_tracker>>

-----------------------------------------------------------------------------
(* _build_modifier_map: one step per iteration of its two loops *)

\* (mutant) every keyword is tested, however long the list
TestedKeywordsUnlimited == prepared_modifiers.keywords

TestedKeywords == Take(prepared_modifiers.keywords, MapLimit)
TestedEntities == Take(prepared_modifiers.entities, MapLimit)

\* (mutant) the count of the repeated base query replaces base_hits
TestModifierRebasing(kind, modifier) ==
    \E result \in Answers("modifier"), base_result \in Answers("rebase") :
        LET hits == HitCount(result)
            base == HitCount(base_result)
        IN
        /\ calls' = calls \o
               <<Call(SingleQuery(modifier), year_range, "modifier", result),
                 Call(base_query, year_range, "rebase", base_result)>>
        /\ base_hits' = base
        /\ IF base = 0
           THEN /\ pc' = "raised"
                /\ UNCHANGED <<modifier_map, ki, ei>>
           ELSE /\ modifier_map' =
                     [modifier_map EXCEPT
                        ![kind] = DictSet(@, Effectiveness(modifier, hits, base))]
                /\ pc' = pc
                /\ ki' = IF kind = "keywords" THEN ki + 1 ELSE ki
                /\ ei' = IF kind = "entities" THEN ei + 1 ELSE ei

\* (mutant) the rate is computed from the base_hits of step 1 instead of
\* the count of the repeated base query
TestModifierCached(kind, modifier) ==
    \E result \in Answers("modifier"), base_result \in Answers("rebase") :
        LET hits == HitCount(result)
            base == HitCount(base_result)
        IN
        /\ calls' = calls \o
               <<Call(SingleQuery(modifier), year_range, "modifier", result),
                 Call(base_query, year_range, "rebase", base_result)>>
        /\ base_hits' = base_hits
        /\ IF base = 0
           THEN /\ pc' = "raised"
                /\ UNCHANGED <<modifier_map, ki, ei>>
           ELSE /\ modifier_map' =
                     [modifier_map EXCEPT
                        ![kind] = DictSet(@, Effectiveness(modifier, hits, base_hits))]
                /\ pc' = pc
                /\ ki' = IF kind = "keywords" THEN ki + 1 ELSE ki
                /\ ei' = IF kind = "entities" THEN ei + 1 ELSE ei

\* both calls of one iteration, in the order the code evaluates them;
\* a second count of 0 makes the division raise ZeroDivisionError
TestModifier(kind, modifier) ==
    \E result \in Answers("modifier"), base_result \in Answers("rebase") :
        LET hits == HitCount(result)
            base == HitCount(base_result)
        IN
        /\ calls' = calls \o
               <<Call(SingleQuery(modifier), year_range, "modifier", result),
                 Call(base_query, year_range, "rebase", base_result)>>
        /\ base_hits' = base_hits
        /\ IF base = 0
           THEN /\ pc' = "raised"
                /\ UNCHANGED <<modifier_map, ki, ei>>
           ELSE /\ modifier_map' =
                     [modifier_map EXCEPT
                        ![kind] = DictSet(@, Effectiveness(modifier, hits, base))]
                /\ pc' = pc
                /\ ki' = IF kind = "keywords" THEN ki + 1 ELSE ki
                /\ ei' = IF kind = "entities" THEN ei + 1 ELSE ei

TestKeyword ==
    /\ pc = "build_map"
    /\ ki <= Len(TestedKeywords)
    /\ TestModifier("keywords", TestedKeywords[ki])
    /\ UNCHANGED <<inputs, generator_vars, counter_vars, main_vars,
                   disk, prepared_modifiers, strategy,
                   remaining_coverage, used_modifiers, final_queries,
                   coverage_tracker, results>>

TestEntity ==
    /\ pc = "build_map"
    /\ ki > Len(TestedKeywords)
    /\ ei <= Len(TestedEntities)
    /\ TestModifier("entities", TestedEntities[ei])
    /\ UNCHANGED <<inputs, generator_vars, counter_vars, main_vars,
                   disk, prepared_modifiers, strategy,
                   remaining_coverage, used_modifiers, final_queries,
                   coverage_tracker, results>>

\* the two sorts that end _build_modifier_map
SortModifierMap ==
    /\ pc = "build_map"
    /\ ki > Len(TestedKeywords)
    /\ ei > Len(TestedEntities)
    /\ modifier_map' = [keywords |-> SortByReductionRate(modifier_map.keywords),
                        entities |-> SortByReductionRate(modifier_map.entities)]
    /\ pc' = "strategy"
    /\ UNCHANGED <<inputs, generator_vars, counter_vars, main_vars,
                   disk, base_hits, prepared_modifiers, strategy,
                   remaining_coverage, used_modifiers, ki, ei, final_queries,
                   coverage_tracker, results, calls>>

-----------------------------------------------------------------------------
(* _create_split_strategy *)

\* Strategy 1: no counter call, so the whole loop is one step
SelectSingles ==
    /\ pc = "strategy"
    /\ LET acc == Phase1(modifier_map, base_hits) IN
          /\ strategy' = acc.strategy
          /\ remaining_coverage' = acc.remaining
          /\ used_modifiers' = acc.used
          /\ pc' = IF acc.remaining > 0 THEN "phase2" ELSE "execute"
    /\ ki' = 1
    /\ ei' = 1
    /\ UNCHANGED <<inputs, generator_vars, counter_vars, main_vars,
                   disk, base_hits, prepared_modifiers, modifier_map,
                   final_queries, coverage_tracker, results, calls>>

\* Strategy 2: one step per keyword x entity pair tested
TestCombination ==
    /\ pc = "phase2"
    /\ ki <= Len(UnusedKeywords)
    /\ ei <= Len(UnusedEntities)
    /\ LET keyword == UnusedKeywords[ki]
           entity  == UnusedEntities[ei]
       IN \E result \in Answers("combination") :
            LET hits == HitCount(result) IN
            /\ calls' = Append(calls, Call(CombinationQuery(keyword, entity),
                                           year_range, "combination", result))
            /\ IF CombinationAccepted(hits)
               THEN /\ strategy' = Append(strategy,
                                     CombinationCandidate(keyword, entity, hits))
                    /\ remaining_coverage' = remaining_coverage - hits
               ELSE UNCHANGED <<strategy, remaining_coverage>>
            /\ IF CombinationAccepted(hits)
                  /\ CoverageReached(remaining_coverage - hits)
               THEN \* both loops break; Strategy 3 is skipped
                    /\ pc' = "execute"
                    /\ ki' = 1
                    /\ ei' = 1
               ELSE /\ pc' = pc
                    /\ IF ei < Len(UnusedEntities)
                       THEN ki' = ki /\ ei' = ei + 1
                       ELSE ki' = ki + 1 /\ ei' = 1
    /\ UNCHANGED <<inputs, generator_vars, counter_vars, main_vars,
                   disk, base_hits, prepared_modifiers, modifier_map,
                   used_modifiers, final_queries, coverage_tracker, results>>

\* Strategy 2 ends with coverage still needed: every pair was tested, or
\* one of the two lists is empty
CombinationsExhausted ==
    /\ pc = "phase2"
    /\ ki > Len(UnusedKeywords) \/ UnusedEntities = <<>>
    /\ pc' = "phase3"
    /\ ki' = 1
    /\ ei' = 1
    /\ UNCHANGED <<inputs, generator_vars, counter_vars, main_vars,
                   disk, base_hits, prepared_modifiers, modifier_map, strategy,
                   remaining_coverage, used_modifiers, final_queries,
                   coverage_tracker, results, calls>>

\* Strategy 3: one exclusion query, one counter call
TestExclusion ==
    /\ pc = "phase3"
    /\ \E mods \in ExclusionChoices(used_modifiers) :
       \E result \in Answers("exclusion") :
          LET exclusions == Exclusions(mods)
              hits == HitCount(result)
          IN
            /\ calls' = Append(calls, Call(ExclusionQuery(exclusions),
                                           year_range, "exclusion", result))
            /\ strategy' = IF ExclusionAccepted(hits)
                           THEN Append(strategy,
                                       ExclusionCandidate(exclusions, hits))
                           ELSE strategy
    /\ pc' = "execute"
    /\ UNCHANGED <<inputs, generator_vars, counter_vars, main_vars,
                   disk, base_hits, prepared_modifiers, modifier_map,
                   remaining_coverage, used_modifiers, ki, ei, final_queries,
                   coverage_tracker, results>>

-----------------------------------------------------------------------------
(* _execute_splits, _verify_coverage and the return *)

\* (mutant) the execution passes the session's year_range like every other call
ExecuteCallWithYear(query, result) == Call(query, year_range, "execute", result)

\* self._get_hit_count(split['query']): no year_range argument is passed
ExecuteCall(query, result) == Call(query, <<>>, "execute", result)

\* one iteration of the loop over the strategy
ExecuteSplit ==
    /\ pc = "execute"
    /\ Len(final_queries) < Len(strategy)
    /\ LET i     == Len(final_queries) + 1
           split == strategy[i]
       IN \E result \in Answers("execute") :
            LET actual_hits == HitCount(result) IN
            /\ calls' = Append(calls, ExecuteCall(split.query, result))
            /\ final_queries' = Append(final_queries,
                                       FinalQuery(i, split, actual_hits))
            /\ coverage_tracker' = TrackerSet(coverage_tracker, split.query,
                                              actual_hits, split.modifiers)
    /\ UNCHANGED <<inputs, generator_vars, counter_vars, main_vars,
                   disk, pc, base_hits, prepared_modifiers, modifier_map,
                   strategy, remaining_coverage, used_modifiers, ki, ei, results>>

\* the dict returned after steps 5 and 6
SplitResult ==
    [returned |-> TRUE,
     base_query |-> base_query,
     base_hits |-> base_hits,
     year_range |-> year_range,
     target_size |-> target_size,
     final_queries |-> final_queries,
     coverage_stats |-> VerifyCoverage(final_queries, base_hits),
     modifier_effectiveness |-> modifier_map]

\* json.dump(results, f) into exhaustive_split_{timestamp}.json
ResultsFile(content) == [file |-> "exhaustive_split", content |-> content]

\* json.dump(self.coverage_tracker, f) into coverage_map_{timestamp}.json
CoverageFile(content) == [file |-> "coverage_map", content |-> content]

\* the two files are written, then the dict is returned
ReturnResults ==
    /\ pc = "execute"
    /\ Len(final_queries) = Len(strategy)
    /\ results' = SplitResult
    /\ disk' = disk \o <<ResultsFile(SplitResult), CoverageFile(coverage_tracker)>>
    /\ pc' = "done"
    /\ UNCHANGED <<inputs, generator_vars, counter_vars, main_vars,
                   base_hits, prepared_modifiers, modifier_map, strategy,
                   remaining_coverage, used_modifiers, ki, ei, final_queries,
                   coverage_tracker, calls>>

-----------------------------------------------------------------------------

Next ==
    \/ CheckBaseQuery
    \/ TestKeyword
    \/ TestEntity
    \/ SortModifierMap
    \/ SelectSingles
    \/ TestCombination
    \/ CombinationsExhausted
    \/ TestExclusion
    \/ ExecuteSplit
    \/ ReturnResults

Spec == Init /\ [][Next]_vars

-----------------------------------------------------------------------------
(***************************************************************************)
(* QueryGenerator (src/pipeline/query_generation.py).                      *)
(*                                                                         *)
(* One behaviour is one call of generate_subqueries.  A modifier text is a *)
(* sequence of characters, so that _clean_modifier works on characters as  *)
(* the source does; a rendered query is a string.                          *)
(***************************************************************************)

\* characters a raw modifier text is made of
Alphabet == {"m", " ", "\"", "-"}

\* every text of at most n characters of the alphabet
RECURSIVE TextsUpTo(_)
TextsUpTo(n) ==
    IF n = 0 THEN {<<>>}
    ELSE TextsUpTo(n - 1)
            \cup {Append(t, c) : t \in {u \in TextsUpTo(n - 1) : Len(u) = n - 1},
                                 c \in Alphabet}

\* the characters of a sequence as one string
RECURSIVE Text(_)
Text(chars) == IF chars = <<>> THEN "" ELSE chars[1] \o Text(Tail(chars))

\* str.split(): the maximal runs of characters that are not whitespace
RECURSIVE SplitWords(_, _)
SplitWords(chars, word) ==
    IF chars = <<>> THEN (IF word = <<>> THEN <<>> ELSE <<word>>)
    ELSE IF chars[1] = " "
         THEN (IF word = <<>> THEN <<>> ELSE <<word>>)
                  \o SplitWords(Tail(chars), <<>>)
         ELSE SplitWords(Tail(chars), Append(word, chars[1]))

\* ' '.join(words), on characters
RECURSIVE JoinWords(_)
JoinWords(words) ==
    IF words = <<>> THEN <<>>
    ELSE IF Len(words) = 1 THEN words[1]
    ELSE words[1] \o <<" ">> \o JoinWords(Tail(words))

\* self.special_chars: the character class [+\-&|!(){}[\]^"~*?:\\]
SpecialChars ==
    {"+", "-", "&", "|", "!", "(", ")", "{", "}", "[", "]", "^", "\"", "~",
     "*", "?", ":", "\\"}

\* (mutant) every modifier is wrapped in quotes
NeedsQuotesAlways(chars) == TRUE

\* ' ' in modifier or re.search(self.special_chars, modifier)
NeedsQuotes(chars) ==
    \E i \in 1..Len(chars) : chars[i] = " " \/ chars[i] \in SpecialChars

\* modifier.replace('"', '\\"')
RECURSIVE EscapeQuotes(_)
EscapeQuotes(chars) ==
    IF chars = <<>> THEN <<>>
    ELSE (IF chars[1] = "\"" THEN <<"\\", "\"">> ELSE <<chars[1]>>)
            \o EscapeQuotes(Tail(chars))

\* (mutant) the whitespace of the text is kept as it is
NormaliseNothing(chars) == chars

\* ' '.join(modifier.split())
Normalise(chars) == JoinWords(SplitWords(chars, <<>>))

\* _clean_modifier
CleanModifier(modifier) ==
    LET stripped == Normalise(modifier) IN
    IF NeedsQuotes(stripped)
    THEN <<"\"">> \o EscapeQuotes(stripped) \o <<"\"">>
    ELSE stripped

\* the (cleaned, score, type) tuples of one list; empty texts are dropped
RECURSIVE CleanedOf(_, _)
CleanedOf(list, type) ==
    IF list = <<>> THEN <<>>
    ELSE LET cleaned == CleanModifier(list[1].text) IN
         (IF cleaned # <<>>
          THEN <<[text |-> Text(cleaned), score |-> list[1].score, type |-> type]>>
          ELSE <<>>)
            \o CleanedOf(Tail(list), type)

ScoreGreater(a, b) == a.score > b.score

\* _prepare_modifiers of the generator: keywords, then entities, sorted by
\* score, highest first
PrepareGeneratorModifiers(mods) ==
    SortedReverse(CleanedOf(mods.keywords, "keyword")
                      \o CleanedOf(mods.entities, "entity"),
                  ScoreGreater)

\* itertools.combinations(modifiers, 2), in its order, as lists
PairsOf(mods) ==
    LET n == Len(mods)
        pairs == {ij \in (1..n) \X (1..n) : ij[1] < ij[2]}
        before(a, b) == a[1] < b[1] \/ (a[1] = b[1] /\ a[2] < b[2])
        place(p) == 1 + Cardinality({q \in pairs : before(q, p)})
    IN [k \in 1..Cardinality(pairs) |->
           LET ij == CHOOSE p \in pairs : place(p) = k
           IN <<mods[ij[1]], mods[ij[2]]>>]

\* sum(1 for m in combo if m[2] == 'entity') <= 2
FewEntities(combo) ==
    Cardinality({i \in 1..Len(combo) : combo[i].type = "entity"}) <= 2

\* _generate_modifier_combinations with max_modifier_combinations = 2
ModifierCombinations(mods) ==
    [i \in 1..Len(mods) |-> <<mods[i]>>] \o SelectSeq(PairsOf(mods), FewEntities)

\* the year constraints _create_query_dict appends
YearConstraint(yr) ==
    IF yr = <<>> THEN ""
    ELSE IF yr[1] = yr[2]
    THEN " after:" \o ToString(yr[1] - 1) \o " before:" \o ToString(yr[1] + 1)
    ELSE " after:" \o ToString(yr[1] - 1) \o " before:" \o ToString(yr[2] + 1)

\* ' '.join(query_parts)
QueryParts(base, mods) ==
    Join(<<"(" \o base \o ")">> \o [i \in 1..Len(mods) |-> mods[i].text])

\* _create_query_dict
CreateQueryDict(base, mods, yr) ==
    [query |-> QueryParts(base, mods) \o YearConstraint(yr),
     base_query |-> base,
     modifiers |-> mods,
     year_range |-> yr,
     modifier_count |-> Len(mods)]

\* the texts of the general inputs: every text of at most MaxChars characters
RawTexts == TextsUpTo(MaxChars)

Scored(chars, score) == [text |-> chars, score |-> score]

\* the year_ranges argument: a list of (start, end) tuples, or [None]
YearRangeLists ==
    {<<<<>>>>, <<<<2020, 2020>>>>, <<<<2019, 2021>>, <<2022, 2022>>>>}

\* a call with year_ranges given
GeneratorInput(mods, years, max) ==
    [modifiers |-> mods, start_year |-> 0, end_year |-> 0, ranges_given |-> TRUE,
     year_ranges |-> years, max_queries |-> max]

\* a call with start_year and end_year, year_ranges left None
GeneratorInputByYears(mods, first, last, max) ==
    [modifiers |-> mods, start_year |-> first, end_year |-> last,
     ranges_given |-> FALSE, year_ranges |-> <<>>, max_queries |-> max]

\* one keyword of any text, and no entity or one entity scored under or
\* over the keyword
GeneralGeneratorInputs ==
    {GeneratorInput([keywords |-> <<Scored(t, 2)>>, entities |-> e], y, 100) :
        t \in RawTexts,
        e \in {<<>>, <<Scored(<<"e">>, 1)>>, <<Scored(<<"e", " ", "e">>, 3)>>},
        y \in YearRangeLists}

\* modifiers ["m1", "m2"] for the year range (2020, 2020), and the same
\* with room for two queries only
ExampleGeneratorInputs ==
    {GeneratorInput([keywords |-> <<Scored(<<"m", "1">>, 2), Scored(<<"m", "2">>, 1)>>,
                     entities |-> <<>>],
                    <<<<2020, 2020>>>>, max) : max \in {2, 100}}

\* one keyword, the years 2000..end for every span of 0 to MaxYearSpan years
\* (a span of 0 years has no end_year), and an interval that is empty
YearGeneratorInputs ==
    {GeneratorInputByYears([keywords |-> <<Scored(<<"m">>, 1)>>, entities |-> <<>>],
                           2000, IF n = 0 THEN 0 ELSE 2000 + n - 1, 100) :
        n \in 0..MaxYearSpan}
    \cup {GeneratorInputByYears([keywords |-> <<>>, entities |-> <<>>],
                                2001, 2000, 100)}

GeneratorInputs ==
    GeneralGeneratorInputs \cup ExampleGeneratorInputs \cup YearGeneratorInputs

GeneratorInit ==
    /\ \E input \in GeneratorInputs :
          /\ g_modifiers = input.modifiers
          /\ g_start_year = input.start_year
          /\ g_end_year = input.end_year
          /\ g_ranges_given = input.ranges_given
          /\ g_year_ranges = input.year_ranges
          /\ g_max_queries = input.max_queries
    /\ g_all_modifiers = <<>>
    /\ g_queries = <<>>
    /\ g_year = 1
    /\ g_combo = 1
    /\ g_pc = "start"
    /\ SplitterIdle
    /\ CounterIdle
    /\ MainIdle

\* modifier_combinations of generate_subqueries
modifier_combinations == ModifierCombinations(g_all_modifiers)

\* query_count of generate_subqueries
query_count == Len(g_queries)

generator_years == <<g_start_year, g_end_year, g_ranges_given, g_year_ranges>>

\* for year in range(first, last, step): (year, min(year + step - 1, last))
SteppedYearRanges(first, last, step) ==
    LET n == IF last > first THEN (last - first + step - 1) \div step ELSE 0 IN
    [i \in 1..n |->
        LET y == first + (i - 1) * step IN
        <<y, IF y + step - 1 < last THEN y + step - 1 ELSE last>>]

\* _generate_year_ranges
GenerateYearRanges(first, last) ==
    LET total_years == last - first + 1 IN
    IF total_years <= 5
    THEN [i \in 1..total_years |-> <<first + i - 1, first + i - 1>>]
    ELSE IF total_years <= 10 THEN SteppedYearRanges(first, last, 2)
    ELSE IF total_years <= 20 THEN SteppedYearRanges(first, last, 3)
    ELSE SteppedYearRanges(first, last, 5)

\* year_ranges after "Generate year ranges if not provided"
YearRangesUsed ==
    IF g_ranges_given THEN g_year_ranges
    ELSE IF g_start_year # 0 /\ g_end_year # 0
         THEN GenerateYearRanges(g_start_year, g_end_year)
         ELSE <<<<>>>>

\* generate_subqueries up to its first loop
StartGenerate ==
    /\ g_pc = "start"
    /\ g_all_modifiers' = PrepareGeneratorModifiers(g_modifiers)
    /\ g_year_ranges' = YearRangesUsed
    /\ g_pc' = IF YearRangesUsed = <<>> THEN "base" ELSE "modified"
    /\ UNCHANGED <<g_modifiers, g_start_year, g_end_year, g_ranges_given,
                   g_max_queries, g_queries,
                   g_year, g_combo,
                   splitter_vars, counter_vars, main_vars>>

\* one iteration of the inner loop: one modified query
GenerateModified ==
    /\ g_pc = "modified"
    /\ g_year <= Len(g_year_ranges)
    /\ g_combo <= Len(modifier_combinations)
    /\ query_count < g_max_queries
    /\ g_queries' = Append(g_queries,
                           CreateQueryDict(base_query,
                                           modifier_combinations[g_combo],
                                           g_year_ranges[g_year]))
    /\ g_combo' = g_combo + 1
    /\ UNCHANGED <<g_modifiers, generator_years, g_max_queries, g_all_modifiers,
                   g_year, g_pc,
                   splitter_vars, counter_vars, main_vars>>

\* the inner loop ends or breaks; the outer loop goes on, ends or breaks
EndOfCombinations ==
    /\ g_pc = "modified"
    /\ g_year <= Len(g_year_ranges)
    /\ g_combo > Len(modifier_combinations) \/ query_count >= g_max_queries
    /\ IF query_count >= g_max_queries \/ g_year = Len(g_year_ranges)
       THEN g_pc' = "base" /\ g_year' = 1
       ELSE g_pc' = g_pc /\ g_year' = g_year + 1
    /\ g_combo' = 1
    /\ UNCHANGED <<g_modifiers, generator_years, g_max_queries, g_all_modifiers,
                   g_queries,
                   splitter_vars, counter_vars, main_vars>>

\* one iteration of the second loop: the base query for one year range
GenerateBase ==
    /\ g_pc = "base"
    /\ g_year <= Len(g_year_ranges)
    /\ query_count < g_max_queries
    /\ g_queries' = Append(g_queries,
                           CreateQueryDict(base_query, <<>>, g_year_ranges[g_year]))
    /\ g_year' = g_year + 1
    /\ UNCHANGED <<g_modifiers, generator_years, g_max_queries, g_all_modifiers,
                   g_combo, g_pc,
                   splitter_vars, counter_vars, main_vars>>

ReturnQueries ==
    /\ g_pc = "base"
    /\ g_year > Len(g_year_ranges) \/ query_count >= g_max_queries
    /\ g_pc' = "done"
    /\ UNCHANGED <<g_modifiers, generator_years, g_max_queries, g_all_modifiers,
                   g_queries, g_year, g_combo,
                   splitter_vars, counter_vars, main_vars>>

GeneratorNext ==
    \/ StartGenerate
    \/ GenerateModified
    \/ EndOfCombinations
    \/ GenerateBase
    \/ ReturnQueries

GeneratorSpec == GeneratorInit /\ [][GeneratorNext]_vars

-----------------------------------------------------------------------------
(***************************************************************************)
(* ScholarHitsCounter (src/pipeline/scholar_hits.py).                      *)
(*                                                                         *)
(* One behaviour is one run of the counter over a list of queries, either  *)
(* by count_hits or by the successive _get_hit_count calls of the          *)
(* exhaustive splitter.  Every search attempt is one step; what the search *)
(* engine does at an attempt is a nondeterministic choice.  The log events *)
(* holds the calls, the attempts, the sleeps and the saves, in order.      *)
(***************************************************************************)

\* self.min_delay, self.max_delay, self.error_delay
min_delay == 5
max_delay == 15
error_delay == 60

\* max_retries of _count_single_query
max_retries == 3

\* _estimate_total_results stops counting at this many results
ResultLimit == 1000

\* count_hits saves after every this many queries
SavePeriod == 10

\* str(e) of the exception an attempt raises: every failure has its own
ErrorMessage(attempt) == "failure " \o ToString(attempt)

\* the numbers of results the second search can iterate over
SearchSizes == {1, ResultLimit, ResultLimit + 1}

\* what one attempt can meet: the search raises; the iterator is empty
\* (next(search_query, None) is None); StopIteration comes out of the
\* search; or a first result exists and the second search of
\* _estimate_total_results raises or yields size results
Outcome(kind, message, size) == [kind |-> kind, message |-> message, size |-> size]

Outcomes(attempt) ==
    {Outcome("raise", ErrorMessage(attempt), 0)}
        \cup {Outcome(k, "None", 0) : k \in {"none", "stop", "found_then_raise"}}
        \cup {Outcome("found", "None", n) : n \in SearchSizes}

\* (mutant) the results are counted to the end of the search
EstimateUncapped(outcome) ==
    IF outcome.kind = "found_then_raise" THEN 0 ELSE outcome.size

\* _estimate_total_results
EstimateTotalResults(outcome) ==
    IF outcome.kind = "found_then_raise" THEN 0
    ELSE IF outcome.size >= ResultLimit THEN ResultLimit
    ELSE outcome.size

\* (mutant) an empty iterator is handled like an exception
RaisesOrEmpty(outcome) == outcome.kind \in {"raise", "none", "stop"}

\* the attempt ends in the except Exception branch
Raises(outcome) == outcome.kind = "raise"

\* the result dict of _count_single_query before the first attempt
PendingResult(query, index) ==
    [index |-> index, query |-> query, hit_count |-> 0, status |-> "pending",
     error |-> "None"]

\* the entries of the log
CallEvent(query, index) == [type |-> "call", query |-> query, index |-> index]
AttemptEvent(outcome, raised) ==
    [type |-> "attempt", kind |-> outcome.kind, raised |-> raised,
     message |-> outcome.message]
SleepEvent(seconds) == [type |-> "sleep", seconds |-> seconds]
SaveEvent(rows) == [type |-> "save", rows |-> rows]
ReturnEvent(result) == [type |-> "return", result |-> result]

\* the lists of at most n queries
QueryLists(n) == {[i \in 1..k |-> "q" \o ToString(i)] : k \in 0..n}

CounterInit ==
    /\ caller \in {"count_hits", "_get_hit_count"}
    /\ counter_queries \in QueryLists(MaxQueries)
    /\ counter_i = 0
    /\ retry_count = 0
    /\ counter_result = PendingResult("", 0)
    /\ counter_results = <<>>
    /\ events = <<>>
    /\ counter_pc = "loop"
    /\ SplitterIdle
    /\ GeneratorIdle
    /\ MainIdle

\* the index _count_single_query is given: i from count_hits, 0 from
\* _get_hit_count
CallIndex == IF caller = "count_hits" THEN counter_i ELSE 0

\* _count_single_query is entered for queries[i]
StartQuery ==
    /\ counter_pc = "loop"
    /\ counter_i < Len(counter_queries)
    /\ counter_result' = PendingResult(counter_queries[counter_i + 1], CallIndex)
    /\ retry_count' = 0
    /\ events' = Append(events, CallEvent(counter_queries[counter_i + 1], CallIndex))
    /\ counter_pc' = "attempt"
    /\ UNCHANGED <<caller, counter_queries, counter_i, counter_results,
                   splitter_vars, generator_vars, main_vars>>

\* (mutant) the error delay is waited after the last failure as well
SleepAfterEveryFailure(retries) == TRUE

\* the else branch of "if retry_count >= max_retries"
SleepAfterFailure(retries) == retries < max_retries

\* one iteration of the while loop of _count_single_query
Attempt ==
    /\ counter_pc = "attempt"
    /\ retry_count < max_retries
    /\ \E outcome \in Outcomes(retry_count + 1) :
          IF Raises(outcome)
          THEN /\ retry_count' = retry_count + 1
               /\ counter_result' =
                     IF retry_count + 1 >= max_retries
                     THEN [counter_result EXCEPT !.status = "error",
                                                 !.error = outcome.message]
                     ELSE counter_result
               /\ events' = events \o <<AttemptEvent(outcome, TRUE)>>
                               \o (IF SleepAfterFailure(retry_count + 1)
                                   THEN <<SleepEvent(error_delay)>>
                                   ELSE <<>>)
                               \o (IF retry_count + 1 < max_retries
                                   THEN <<>>
                                   ELSE <<ReturnEvent(counter_result')>>)
               /\ counter_pc' = IF retry_count + 1 < max_retries
                                THEN "attempt" ELSE "returned"
          ELSE /\ counter_result' =
                     [counter_result EXCEPT
                        !.status = "success",
                        !.hit_count = IF outcome.kind \in {"none", "stop"}
                                      THEN 0
                                      ELSE EstimateTotalResults(outcome)]
               /\ events' = events \o <<AttemptEvent(outcome, FALSE),
                                         ReturnEvent(counter_result')>>
               /\ counter_pc' = "returned"
               /\ UNCHANGED retry_count
    /\ UNCHANGED <<caller, counter_queries, counter_i, counter_results,
                   splitter_vars, generator_vars, main_vars>>

\* random.uniform(self.min_delay, self.max_delay): the ends of the interval
RateDelays == {min_delay, max_delay}

\* the rest of one iteration of count_hits: the result is stored, the
\* results are saved after every 10th query, and a delay is slept unless
\* the query was the last
StoreAndDelay ==
    /\ counter_pc = "returned"
    /\ caller = "count_hits"
    /\ counter_results' = Append(counter_results, counter_result)
    /\ \E delay \in RateDelays :
          events' = events
              \o (IF (counter_i + 1) % SavePeriod = 0
                  THEN <<SaveEvent(Len(counter_results) + 1)>> ELSE <<>>)
              \o (IF counter_i < Len(counter_queries) - 1
                  THEN <<SleepEvent(delay)>> ELSE <<>>)
    /\ counter_i' = counter_i + 1
    /\ counter_pc' = "loop"
    /\ UNCHANGED <<caller, counter_queries, retry_count, counter_result,
                   splitter_vars, generator_vars, main_vars>>

\* _get_hit_count returns result.get('hit_count', 0); the splitter goes on
\* to its next call
ReturnHitCount ==
    /\ counter_pc = "returned"
    /\ caller = "_get_hit_count"
    /\ counter_i' = counter_i + 1
    /\ counter_pc' = "loop"
    /\ UNCHANGED <<caller, counter_queries, retry_count, counter_result,
                   counter_results, events, splitter_vars, generator_vars, main_vars>>

\* the loop is over: count_hits saves the final results
FinishCounting ==
    /\ counter_pc = "loop"
    /\ counter_i >= Len(counter_queries)
    /\ events' = IF caller = "count_hits"
                 THEN Append(events, SaveEvent(Len(counter_results)))
                 ELSE events
    /\ counter_pc' = "done"
    /\ UNCHANGED <<caller, counter_queries, counter_i, retry_count,
                   counter_result, counter_results, splitter_vars, generator_vars, main_vars>>

CounterNext ==
    \/ StartQuery
    \/ Attempt
    \/ StoreAndDelay
    \/ ReturnHitCount
    \/ FinishCounting

\* the program runs on: an enabled step is eventually taken
CounterSpec ==
    /\ CounterInit
    /\ [][CounterNext]_vars
    /\ WF_vars(CounterNext)

-----------------------------------------------------------------------------
(***************************************************************************)
(* main of main_exhaustive (src/main_exhaustive.py).                       *)
(*                                                                         *)
(* One behaviour is one run of main from Step 4 on: one splitter object,   *)
(* one session per year of start_year..end_year, then the final report and *)
(* the CSV export.  The sessions are the steps of split_exhaustively       *)
(* above; self.coverage_tracker and the disk live as long as the run.      *)
(***************************************************************************)

\* a modifier text cut at its '|' characters, the bars kept as pieces
Chunks(text) ==
    IF text = "a|b" THEN <<"a", "|", "b">>
    ELSE IF text = "NOT \"a|b\"" THEN <<"NOT \"a", "|", "b\"">>
    ELSE <<text>>

\* '|'.join(query['modifiers']), as the pieces of the cell
RECURSIVE JoinBar(_)
JoinBar(mods) ==
    IF mods = <<>> THEN <<>>
    ELSE IF Len(mods) = 1 THEN Chunks(mods[1])
    ELSE Chunks(mods[1]) \o <<"|">> \o JoinBar(Tail(mods))

\* one row of csv_data
CsvRow(y, query) ==
    [year |-> y, query_id |-> query.id, query |-> query.query,
     modifiers |-> JoinBar(query.modifiers), type |-> query.type,
     hits |-> query.actual_hits]

\* the rows one year contributes to csv_data
CsvRowsOf(year_data) ==
    IF "final_queries" \in DOMAIN year_data.results
    THEN [i \in 1..Len(year_data.results.final_queries) |->
             CsvRow(year_data.year, year_data.results.final_queries[i])]
    ELSE <<>>

RECURSIVE CsvData(_)
CsvData(all) ==
    IF all = <<>> THEN <<>> ELSE CsvRowsOf(all[1]) \o CsvData(Tail(all))

\* sum(len(r['results']['final_queries']) ... if 'final_queries' in r['results'])
RECURSIVE TotalQueries(_)
TotalQueries(all) ==
    IF all = <<>> THEN 0
    ELSE (IF "final_queries" \in DOMAIN all[1].results
          THEN Len(all[1].results.final_queries) ELSE 0)
            + TotalQueries(Tail(all))

\* sum(r['results']['coverage_stats']['total_coverage'] ... if 'coverage_stats' in ...)
RECURSIVE TotalCoverage(_)
TotalCoverage(all) ==
    IF all = <<>> THEN 0
    ELSE (IF "coverage_stats" \in DOMAIN all[1].results
          THEN all[1].results.coverage_stats.total_coverage ELSE 0)
            + TotalCoverage(Tail(all))

FinalReport(all) ==
    [base_query |-> base_query,
     year_range |-> <<start_year, end_year>>,
     target_size |-> target_size,
     total_queries_generated |-> TotalQueries(all),
     total_coverage |-> TotalCoverage(all),
     yearly_results |-> all]

\* outputs/exhaustive/year_{year}_results.json
YearFile(y, content) == [file |-> "year_results", year |-> y, content |-> content]
\* outputs/exhaustive/final_report_{timestamp}.json
ReportFile(content) == [file |-> "final_report", content |-> content]
\* outputs/exhaustive/all_queries_{timestamp}.csv
CsvFile(rows) == [file |-> "all_queries", content |-> rows]

FirstYear == 2020

\* the search engine of a general run: a base count at or above the target
MainEngine ==
    [base |-> {GeneralTarget, MaxHit}, modifier |-> {0, 1}, rebase |-> {MaxHit},
     combination |-> {1}, exclusion |-> {MaxHit}, execute |-> {1},
     failing |-> {}]

Run(target, mods, engine, first, last) ==
    [target_size |-> target, modifiers |-> mods, oracle |-> engine,
     start_year |-> first, end_year |-> last]

\* one keyword and one entity, one to MaxYears years
GeneralRuns ==
    {Run(GeneralTarget, [keywords |-> <<"k1">>, entities |-> <<"e1">>],
         MainEngine, FirstYear, FirstYear + n - 1) : n \in 1..MaxYears}

\* a keyword with a '|' in its text, selected alone and then excluded
BarRuns ==
    {Run(GeneralTarget, [keywords |-> <<"a|b">>, entities |-> <<>>],
         FixedEngine(MaxHit, 1, 1, {MaxHit}, 1), FirstYear, FirstYear)}

\* the repeated base query counts 0: split_exhaustively raises
RaisingRuns ==
    {Run(GeneralTarget, [keywords |-> <<"k1">>, entities |-> <<>>],
         [base |-> {MaxHit}, modifier |-> {1}, rebase |-> {0},
          combination |-> {1}, exclusion |-> {MaxHit}, execute |-> {1},
          failing |-> {}],
         FirstYear, FirstYear)}

Runs == GeneralRuns \cup BarRuns \cup RaisingRuns

\* Step 4 of main: the splitter is constructed, no year is processed yet
MainInit ==
    /\ \E run \in Runs :
          /\ target_size = run.target_size
          /\ modifiers = run.modifiers
          /\ oracle = run.oracle
          /\ start_year = run.start_year
          /\ end_year = run.end_year
          /\ year = run.start_year
    /\ year_range = <<>>
    /\ pc = "idle"
    /\ NotStarted
    /\ all_results = <<>>
    /\ final_report = <<>>
    /\ csv_data = <<>>
    /\ main_pc = "loop"
    /\ GeneratorIdle
    /\ CounterIdle

\* splitter.split_exhaustively(base_query, modifiers, (year, year)) is entered:
\* its locals are fresh, self.coverage_tracker is the splitter's
StartYear ==
    /\ main_pc = "loop"
    /\ year <= end_year
    /\ main_pc' = "session"
    /\ year_range' = <<year, year>>
    /\ pc' = "start"
    /\ base_hits' = NoValue
    /\ prepared_modifiers' = [keywords |-> <<>>, entities |-> <<>>]
    /\ modifier_map' = [keywords |-> <<>>, entities |-> <<>>]
    /\ strategy' = <<>>
    /\ remaining_coverage' = NoValue
    /\ used_modifiers' = {}
    /\ ki' = 1
    /\ ei' = 1
    /\ final_queries' = <<>>
    /\ results' = [returned |-> FALSE]
    /\ calls' = <<>>
    /\ UNCHANGED <<target_size, modifiers, oracle, coverage_tracker, disk,
                   start_year, end_year, year, all_results, final_report,
                   csv_data, generator_vars, counter_vars>>

\* the session returned: all_results.append, the year's file is written
FinishYear ==
    /\ main_pc = "session"
    /\ pc = "done"
    /\ all_results' = Append(all_results, [year |-> year, results |-> results])
    /\ disk' = Append(disk, YearFile(year, results))
    /\ year' = year + 1
    /\ main_pc' = "loop"
    /\ UNCHANGED <<inputs, pc, base_hits, prepared_modifiers, modifier_map,
                   strategy, remaining_coverage, used_modifiers, ki, ei,
                   final_queries, coverage_tracker, results, calls,
                   start_year, end_year, final_report, csv_data,
                   generator_vars, counter_vars>>

\* Step 5: the final report and the CSV export
GenerateReport ==
    /\ main_pc = "loop"
    /\ year > end_year
    /\ final_report' = FinalReport(all_results)
    /\ csv_data' = CsvData(all_results)
    /\ disk' = disk \o <<ReportFile(FinalReport(all_results)),
                         CsvFile(CsvData(all_results))>>
    /\ main_pc' = "done"
    /\ UNCHANGED <<inputs, pc, base_hits, prepared_modifiers, modifier_map,
                   strategy, remaining_coverage, used_modifiers, ki, ei,
                   final_queries, coverage_tracker, results, calls,
                   start_year, end_year, year, all_results,
                   generator_vars, counter_vars>>

\* except Exception as e: the error is logged, nothing more is written
MainFails ==
    /\ main_pc = "session"
    /\ pc = "raised"
    /\ main_pc' = "failed"
    /\ UNCHANGED <<splitter_vars, start_year, end_year, year, all_results,
                   final_report, csv_data, generator_vars, counter_vars>>

MainNext ==
    \/ StartYear
    \/ CheckBaseQuery
    \/ TestKeyword
    \/ TestEntity
    \/ SortModifierMap
    \/ SelectSingles
    \/ TestCombination
    \/ CombinationsExhausted
    \/ TestExclusion
    \/ ExecuteSplit
    \/ ReturnResults
    \/ FinishYear
    \/ GenerateReport
    \/ MainFails

MainSpec == MainInit /\ [][MainNext]_vars

-----------------------------------------------------------------------------
(* Properties *)

IsSingle(c) == c.type = "single"
IsCombination(c) == c.type = "combination"
IsExclusion(c) == c.type = "exclusion"

\* the candidates of one kind, in strategy order
Singles == SelectSeq(strategy, IsSingle)
Combinations == SelectSeq(strategy, IsCombination)

\* the counter calls issued from one call site, in order
CallsAt(site) == SelectSeq(calls, LAMBDA c : c.site = site)

\* Strategy 1 is over
SinglesSelected ==
    \/ pc \in {"phase2", "phase3", "execute"}
    \/ pc = "done" /\ "final_queries" \in DOMAIN results

\* C1: when the first count of the base query is at most target_size, the
\* session returns one query, the base query with that count, coverage 100,
\* and the counter is not called again.
C1_SmallBaseQueryIsReturnedAlone ==
    (calls # <<>> /\ calls[1].hits <= target_size) =>
        /\ pc = "done"
        /\ results.returned
        /\ results.status = "complete"
        /\ results.queries = <<[query |-> "Q", hits |-> calls[1].hits]>>
        /\ results.total_hits = calls[1].hits
        /\ results.coverage = 100
        /\ Len(calls) = 1
        /\ calls[1].site = "base"
        /\ strategy = <<>> /\ final_queries = <<>>

\* C1 witness: a session whose base count equals target_size has returned
C1_Witness ==
    /\ pc = "done"
    /\ calls[1].hits = target_size
    /\ target_size > 0
    /\ Len(results.queries) = 1

\* the effectiveness records of both dicts
MapEntries == Range(modifier_map.keywords) \cup Range(modifier_map.entities)

\* C2: every 'single' candidate has 0 < expected_hits < target_size and was
\* measured with that count; a modifier measured at 0 or at target_size or
\* more is not selected by Strategy 1.
C2_SinglesWithinTarget ==
    LET entries == MapEntries IN
    \A i \in 1..Len(strategy) :
        strategy[i].type = "single" =>
            /\ 0 < strategy[i].expected_hits
            /\ strategy[i].expected_hits < target_size
            /\ Len(strategy[i].modifiers) = 1
            /\ \E e \in entries :
                  /\ e.modifier = strategy[i].modifiers[1]
                  /\ e.hits = strategy[i].expected_hits

\* C2 witness: a modifier was selected while another, measured exactly at
\* target_size, was left out
C2_Witness ==
    /\ SinglesSelected
    /\ Singles # <<>>
    /\ \E e \in MapEntries :
          /\ e.hits = target_size
          /\ \A i \in 1..Len(Singles) : Singles[i].modifiers[1] # e.modifier

\* the records of the effectiveness map in pool order: keywords, then entities
PoolOrder == modifier_map.keywords \o modifier_map.entities

\* the first place in pool order of the record a 'single' candidate comes from
PoolIndex(c) ==
    LET pool == PoolOrder IN
    CHOOSE p \in 1..Len(pool) :
        /\ pool[p].modifier = c.modifiers[1]
        /\ pool[p].hits = c.expected_hits
        /\ \A q \in 1..(p - 1) :
              ~(pool[q].modifier = c.modifiers[1]
                  /\ pool[q].hits = c.expected_hits)

\* C3: the 'single' candidates are in non-increasing order of expected_hits,
\* and candidates with equal hits are in pool order (keywords in map order,
\* then entities in map order).
C3_SinglesSortedStable ==
    LET singles == Singles IN
    \A i, j \in 1..Len(singles) :
        i < j =>
            /\ singles[i].expected_hits >= singles[j].expected_hits
            /\ singles[i].expected_hits = singles[j].expected_hits
                  => PoolIndex(singles[i]) < PoolIndex(singles[j])

\* C3 witness: three singles, the first with more hits than the two others,
\* which are tied
C3_Witness ==
    /\ Len(Singles) = 3
    /\ Singles[1].expected_hits > Singles[2].expected_hits
    /\ Singles[2].expected_hits = Singles[3].expected_hits

\* the expected hits of the first k candidates of s, summed
ExpectedUpTo(s, k) ==
    LET sum[i \in 0..k] ==
            IF i = 0 THEN 0 ELSE sum[i - 1] + s[i].expected_hits
    IN sum[k]

\* the texts of the records measured inside (0, target_size)
EligibleTexts ==
    {e.modifier : e \in {x \in MapEntries : 0 < x.hits /\ x.hits < target_size}}

SingleTexts == {Singles[i].modifiers[1] : i \in 1..Len(Singles)}

\* the end-to-end scenario: 5000 base hits, target 900, five modifiers of 800
FiveOf800 ==
    /\ base_hits = 5000
    /\ target_size = 900
    /\ Cardinality({e.modifier : e \in MapEntries}) = 5
    /\ Len(PoolOrder) = 5
    /\ \A e \in MapEntries : e.hits = 800

\* C4: Strategy 1 stops as soon as the accepted hits reach base_hits: the
\* number of singles is the smallest k whose first k hits sum to at least
\* base_hits, or every distinct eligible modifier when there is no such k.
\* With base_hits 5000, target 900 and five modifiers of 800 hits, all five
\* are selected, 1000 hits remain and Strategy 2 is entered.
C4_SinglesStopAtCoverage ==
    SinglesSelected =>
        LET n == Len(Singles) IN
        /\ \A k \in 0..(n - 1) : ExpectedUpTo(Singles, k) < base_hits
        /\ \/ ExpectedUpTo(Singles, n) >= base_hits
           \/ SingleTexts = EligibleTexts
        /\ Cardinality(SingleTexts) = n
        /\ FiveOf800 =>
              /\ n = 5
              /\ remaining_coverage = 1000
              /\ pc \in {"phase2", "phase3"} \/ CallsAt("exclusion") # <<>>

\* C4 witness: the end-to-end scenario has entered Strategy 2
C4_Witness ==
    /\ FiveOf800
    /\ pc = "phase2"
    /\ Len(Singles) = 5
    /\ remaining_coverage = 1000

\* a state where Strategy 1 stopped although eligible modifiers were left
C4_StoppedEarly ==
    /\ SinglesSelected
    /\ SingleTexts # EligibleTexts
    /\ ExpectedUpTo(Singles, Len(Singles)) = base_hits

\* the year clause _get_hit_count appends for the session's year_range
YearSuffix ==
    IF year_range = <<>> THEN ""
    ELSE " after:" \o ToString(year_range[1])
            \o " before:" \o ToString(year_range[2])

FirstTen(s) == SubSeq(s, 1, IF Len(s) < 10 THEN Len(s) ELSE 10)

\* the first ten keywords (entities) of the map that no single candidate uses
FirstUnusedKeywords ==
    FirstTen(SelectSeq([i \in 1..Len(modifier_map.keywords) |->
                           modifier_map.keywords[i].modifier],
                       LAMBDA m : m \notin SingleTexts))
FirstUnusedEntities ==
    FirstTen(SelectSeq([i \in 1..Len(modifier_map.entities) |->
                           modifier_map.entities[i].modifier],
                       LAMBDA m : m \notin SingleTexts))

InsideTarget(c) == 0 < c.hits /\ c.hits < target_size

\* the hits of the accepted calls among the first p calls of s, summed
AcceptedUpTo(s, p) ==
    LET sum[i \in 0..p] ==
            IF i = 0 THEN 0
            ELSE sum[i - 1] + (IF InsideTarget(s[i]) THEN s[i].hits ELSE 0)
    IN sum[p]

\* what Strategy 1 left to cover
LeftAfterSingles == base_hits - ExpectedUpTo(Singles, Len(Singles))

\* C5: Strategy 2 runs only with coverage left after Strategy 1; its calls
\* are the pairs of the first 10 unused keywords and first 10 unused entities
\* in keyword-major order (at most 100); exactly the pairs counted inside
\* (0, target_size) become 'combination' candidates and are subtracted from
\* remaining_coverage; no pair is queried once remaining_coverage <= 0.
C5_CombinationPhase ==
    LET combo == CallsAt("combination")
        K  == FirstUnusedKeywords
        E  == FirstUnusedEntities
        n  == Len(combo)
        accepted == SelectSeq(combo, InsideTarget)
        combinations == Combinations
        left == LeftAfterSingles
        years == YearSuffix
        closing == "\"" \o YearSuffix
    IN
    /\ (n > 0 \/ pc = "phase2") => left > 0
    /\ n <= Len(K) * Len(E)
    /\ n <= 100
    /\ \A p \in 1..n :
          LET k == K[((p - 1) \div Len(E)) + 1]
              e == E[((p - 1) % Len(E)) + 1]
          IN combo[p].query = "Q AND \"" \o k \o "\" AND \"" \o e \o closing
    /\ Len(combinations) = Len(accepted)
    /\ \A i \in 1..Len(combinations) :
          /\ combinations[i].expected_hits = accepted[i].hits
          /\ combinations[i].query \o years = accepted[i].query
          /\ Len(combinations[i].modifiers) = 2
          /\ combinations[i].query =
                "Q AND \"" \o combinations[i].modifiers[1]
                    \o "\" AND \"" \o combinations[i].modifiers[2] \o "\""
    /\ SinglesSelected =>
          remaining_coverage =
              left - ExpectedUpTo(combinations, Len(combinations))
    /\ \A p \in 0..(n - 1) : left - AcceptedUpTo(combo, p) > 0
    /\ pc = "phase2" => remaining_coverage > 0

\* C5 witness: two pairs were accepted, one rejected, and the second
\* acceptance ended Strategy 2 before every pair was queried
C5_Witness ==
    /\ pc = "execute"
    /\ Len(Combinations) = 2
    /\ Len(CallsAt("combination")) = 3
    /\ Len(FirstUnusedKeywords) * Len(FirstUnusedEntities) = 4
    /\ remaining_coverage <= 0
    /\ CallsAt("exclusion") = <<>>

\* a session that queried the full 10 x 10 pairs of longer lists
C5_HundredPairs ==
    /\ Len(CallsAt("combination")) = 100
    /\ Len(modifier_map.keywords) > 10
    /\ Len(modifier_map.entities) > 10

\* query is text followed by NOT clauses for k distinct texts of S, in some
\* order, and then by the year clause
RECURSIVE ExcludesSomeOf(_, _, _, _)
ExcludesSomeOf(query, text, S, k) ==
    IF k = 0 THEN query = text \o YearSuffix
    ELSE \E m \in S :
            ExcludesSomeOf(query, text \o " NOT \"" \o m \o "\"", S \ {m}, k - 1)

Smaller(a, b) == IF a < b THEN a ELSE b

\* the latest counter call is the exclusion query: the state Strategy 3
\* leaves behind (every exclusion call is the latest call once)
ExclusionJustCalled == calls # <<>> /\ calls[Len(calls)].site = "exclusion"

\* the latest call sent the base query, NOT clauses for min(5, n) distinct
\* modifiers among the n singles, and the year clause
ExclusionQueryWellFormed ==
    IF SingleTexts = {}
    THEN calls[Len(calls)].query = "Q " \o YearSuffix
    ELSE ExcludesSomeOf(calls[Len(calls)].query, "Q", SingleTexts,
                        Smaller(5, Cardinality(SingleTexts)))

\* the strategy is complete
StrategyBuilt ==
    \/ pc = "execute"
    \/ pc = "done" /\ "final_queries" \in DOMAIN results

Returned == pc = "done" /\ "final_queries" \in DOMAIN results

\* C7: _execute_splits calls the counter once per candidate, in strategy
\* order; record i has id i and the candidate's query, modifiers, type and
\* expected_hits, with the count of that call as actual_hits; a record above
\* target_size is kept and nothing is queried after the last candidate.
C7_ExecutionRecords ==
    LET exec == CallsAt("execute") IN
    /\ Len(exec) = Len(final_queries)
    /\ Len(final_queries) <= Len(strategy)
    /\ \A i \in 1..Len(final_queries) :
          /\ exec[i].query = strategy[i].query
          /\ final_queries[i] =
                [id |-> i, query |-> strategy[i].query,
                 modifiers |-> strategy[i].modifiers,
                 type |-> strategy[i].type,
                 expected_hits |-> strategy[i].expected_hits,
                 actual_hits |-> exec[i].hits]
    /\ \A i \in 1..(Len(calls) - 1) :
          calls[i].site = "execute" => calls[i + 1].site = "execute"
    /\ Returned =>
          /\ Len(final_queries) = Len(strategy)
          /\ results.final_queries = final_queries

\* C7 witness: a returned session with a record above target_size that is
\* not the last one
C7_Witness ==
    /\ Returned
    /\ Len(results.final_queries) >= 2
    /\ results.final_queries[1].actual_hits > target_size

\* the year clause of a session that has a year range
YearClause ==
    " after:" \o ToString(year_range[1]) \o " before:" \o ToString(year_range[2])

InputTexts == Range(modifiers.keywords) \cup Range(modifiers.entities)

\* C8: the execution calls send each candidate's query with no year clause,
\* while the base, modifier, combination and exclusion calls of a session
\* with a year range all end with its year clause; so the expected and the
\* actual hits of a record are counts of two different strings.
C8_ExecutionDropsYear ==
    LET exec  == CallsAt("execute")
        texts == InputTexts
        years == YearClause
        closing == "\"" \o YearClause
    IN
    /\ \A i \in 1..Len(exec) : exec[i].query = strategy[i].query
    /\ year_range # <<>> =>
          /\ \A i \in 1..Len(calls) :
                LET c == calls[i] IN
                /\ c.site \in {"base", "rebase"} => c.query = "Q" \o years
                /\ c.site = "modifier" =>
                      \E m \in texts : c.query = "Q AND \"" \o m \o closing
                /\ c.site = "combination" =>
                      \E k \in texts :
                          LET first == "Q AND \"" \o k \o "\" AND \"" IN
                          \E e \in texts : c.query = first \o e \o closing
                /\ (c.site = "exclusion" /\ i = Len(calls)) =>
                      ExclusionQueryWellFormed
          /\ \A i \in 1..Len(exec) :
                \E j \in 1..Len(calls) :
                    /\ calls[j].site \in {"modifier", "combination", "exclusion"}
                    /\ calls[j].hits = strategy[i].expected_hits
                    /\ calls[j].query = strategy[i].query \o years
                    /\ calls[j].query # exec[i].query

\* C8 witness: a session with a year range has executed a single, a
\* combination and an exclusion candidate
C8_Witness ==
    /\ Returned
    /\ year_range # <<>>
    /\ {final_queries[i].type : i \in 1..Len(final_queries)}
          = {"single", "combination", "exclusion"}

\* the actual hits of the first k records of s, summed
ActualUpTo(s, k) ==
    LET sum[i \in 0..k] ==
            IF i = 0 THEN 0 ELSE sum[i - 1] + s[i].actual_hits
    IN sum[k]

\* C9: the coverage statistics hold the sum of the actual hits, the
\* percentage 100 * total / base_hits (0 when base_hits is 0), the number of
\* records and the number of records strictly under target_size; the
\* percentage is above 100 whenever the total is above base_hits.
C9_CoverageStats ==
    Returned =>
        LET st    == results.coverage_stats
            fq    == results.final_queries
            total == ActualUpTo(fq, Len(fq))
            pct   == st.coverage_percentage
        IN
        /\ st.total_coverage = total
        /\ st.base_hits = results.base_hits
        /\ pct.den > 0
        /\ results.base_hits > 0 =>
              \* the fraction (100 * total) / base_hits, numerator and denominator
              pct.num = 100 * total /\ pct.den = results.base_hits
        /\ results.base_hits = 0 => pct.num = 0
        /\ st.query_count = Len(fq)
        /\ st.queries_under_target =
              Cardinality({i \in 1..Len(fq) : fq[i].actual_hits < target_size})
        /\ (results.base_hits > 0 /\ total > results.base_hits) =>
              pct.num > 100 * pct.den

\* C9 witness: the records sum to more than base_hits, and one of them is
\* exactly at target_size
C9_Witness ==
    /\ Returned
    /\ results.coverage_stats.total_coverage > results.base_hits
    /\ results.base_hits > 0
    /\ \E i \in 1..Len(final_queries) : final_queries[i].actual_hits = target_size

\* a session that reached _verify_coverage with base_hits = 0
C9_ZeroBase == Returned /\ results.base_hits = 0

\* C10: base_hits is the count of the first base-query call for the whole
\* session: remaining_coverage starts from it, it is the denominator of the
\* percentage and the base_hits of the results, whatever the later calls for
\* the base query return.
C10_BaseHitsFixed ==
    calls # <<>> =>
        /\ calls[1].site = "base"
        /\ base_hits = calls[1].hits
        /\ SinglesSelected =>
              remaining_coverage
                  + ExpectedUpTo(Singles, Len(Singles))
                  + ExpectedUpTo(Combinations, Len(Combinations))
                  = calls[1].hits
        /\ Returned =>
              /\ results.base_hits = calls[1].hits
              /\ results.coverage_stats.base_hits = calls[1].hits
              /\ calls[1].hits > 0 =>
                    results.coverage_stats.coverage_percentage.den = calls[1].hits

\* C10 witness: a returned session in which a later call for the base query
\* returned another count than the first
C10_Witness ==
    /\ Returned
    /\ \E i \in 2..Len(calls) :
          /\ calls[i].site = "rebase"
          /\ calls[i].query = calls[1].query
          /\ calls[i].hits # calls[1].hits
    /\ final_queries # <<>>

\* the query _build_modifier_map sends for the record e
ModifierQueryOf(e) == "Q AND \"" \o e.modifier \o "\"" \o YearSuffix

\* the record e was built from calls i and i + 1: the count for
\* base AND "modifier" (query), then the repeated count of the base query
BuiltFrom(e, i, query, rebase) ==
    /\ calls[i].site = "modifier"
    /\ calls[i + 1].site = "rebase"
    /\ e.hits = calls[i].hits
    /\ calls[i].query = query
    /\ calls[i + 1].query = rebase

\* C11: every effectiveness record has reduction_rate = 1 - hits / baseHits,
\* where hits is the count for base AND "modifier" and baseHits > 0 is the
\* count of the base query asked again right after it (once per modifier).
C11_ReductionRate ==
    LET rebase == "Q" \o YearSuffix
        K == modifier_map.keywords
        E == modifier_map.entities
        Computed(e) ==
            LET query == ModifierQueryOf(e) IN
            \E i \in 1..(Len(calls) - 1) :
                /\ BuiltFrom(e, i, query, rebase)
                /\ calls[i + 1].hits > 0
                /\ e.reduction_rate.den > 0
                \* rate = 1 - hits / baseHits, as an equation between fractions
                /\ e.reduction_rate.num * calls[i + 1].hits
                      = (calls[i + 1].hits - calls[i].hits) * e.reduction_rate.den
    IN
    /\ \A k \in 1..Len(K) : Computed(K[k])
    /\ \A k \in 1..Len(E) : Computed(E[k])
    /\ Len(CallsAt("rebase")) = Len(CallsAt("modifier"))

\* C11 witness: a record whose rate was computed from a repeated base count
\* other than base_hits, with a count above it (a negative rate)
C11_Witness ==
    /\ pc = "strategy"
    /\ \E e \in MapEntries :
          /\ e.reduction_rate.den # base_hits
          /\ e.hits > e.reduction_rate.den

\* the text between base AND " and the closing quote of a modifier query
TestedBy(i) ==
    CHOOSE m \in InputTexts :
        calls[i].query = "Q AND \"" \o m \o "\"" \o YearSuffix

\* C12 (as claimed): when the repeated count of the base query is 0, by a
\* count of 0 or by an error, no exception is raised, the modifier just
\* tested gets a record with a defined rate, and the map goes on to be built.
C12_ZeroBaseIsHandled ==
    \A i \in 2..Len(calls) :
        (calls[i].site = "rebase" /\ calls[i].hits = 0) =>
            /\ pc # "raised"
            /\ \E e \in MapEntries : e.modifier = TestedBy(i - 1)

\* _build_modifier_map has returned
MapReturned == pc \in {"strategy", "phase2", "phase3", "execute"} \/ Returned

\* the rates of a mapping never increase along its iteration order
NonIncreasingRates(d) ==
    \A i, j \in 1..Len(d) :
        i < j =>
            d[i].reduction_rate.num * d[j].reduction_rate.den
                >= d[j].reduction_rate.num * d[i].reduction_rate.den

\* C13: _build_modifier_map tests at most the first 30 entries of each list
\* it is given, keywords first, each once and in list order; each returned
\* mapping has at most 30 entries and iterates in non-increasing
\* reduction_rate order.
C13_MapLimitedAndSorted ==
    LET tested == CallsAt("modifier")
        K  == prepared_modifiers.keywords
        E  == prepared_modifiers.entities
        nk == Smaller(30, Len(K))
        ne == Smaller(30, Len(E))
        years == "\"" \o YearSuffix
    IN
    /\ Len(tested) <= nk + ne
    /\ \A j \in 1..Len(tested) :
          tested[j].query =
              "Q AND \"" \o (IF j <= nk THEN K[j] ELSE E[j - nk]) \o years
    /\ Len(modifier_map.keywords) <= 30
    /\ Len(modifier_map.entities) <= 30
    /\ MapReturned =>
          /\ Len(tested) = nk + ne
          /\ NonIncreasingRates(modifier_map.keywords)
          /\ NonIncreasingRates(modifier_map.entities)

\* C13 witness: 31 keywords and 31 entities were given, 30 of each were
\* tested and the map has been returned
C13_Witness ==
    /\ pc = "strategy"
    /\ Len(prepared_modifiers.keywords) = 31
    /\ Len(prepared_modifiers.entities) = 31
    /\ Len(CallsAt("modifier")) = 60
    /\ Len(modifier_map.keywords) = 30

\* a returned map whose keyword tested first is not the first of the mapping
C13_Reordered ==
    /\ pc = "strategy"
    /\ Len(modifier_map.keywords) >= 2
    /\ modifier_map.keywords[1].modifier # prepared_modifiers.keywords[1]
    /\ modifier_map.keywords[1].reduction_rate
          # modifier_map.keywords[2].reduction_rate

\* the clause the claim describes for the session's year range:
\* after:<start-1> before:<end+1>
WidenedYearClause ==
    " after:" \o ToString(year_range[1] - 1)
        \o " before:" \o ToString(year_range[2] + 1)

\* C14 (as claimed, for the hit-count calls of the splitter): every query
\* sent to the counter for a session with a year range (start, end) ends
\* with the clause after:<start-1> before:<end+1>.
C14_SplitterWidensYearRange ==
    year_range # <<>> =>
        \A i \in 1..Len(calls) :
            LET c == calls[i] IN
            /\ c.site \in {"base", "rebase"} => c.query = "Q" \o WidenedYearClause
            /\ c.site = "modifier" =>
                  \E m \in InputTexts :
                      c.query = "Q AND \"" \o m \o "\"" \o WidenedYearClause
            /\ c.site = "combination" =>
                  \E k, e \in InputTexts :
                      c.query = "Q AND \"" \o k \o "\" AND \"" \o e \o "\""
                                    \o WidenedYearClause

\* the same clause for the year range of a generated query
WidenedClauseOf(yr) ==
    " after:" \o ToString(yr[1] - 1) \o " before:" \o ToString(yr[2] + 1)

\* the queries of QueryGenerator do end with that clause
C14_GeneratorWidensYearRange ==
    \A i \in 1..Len(g_queries) :
        LET q == g_queries[i] IN
        q.year_range # <<>> =>
            \E mods \in {<<>>} \cup Range(ModifierCombinations(g_all_modifiers)) :
                q.query = QueryParts("Q", mods) \o WidenedClauseOf(q.year_range)

\* each modifier text in double quotes, each preceded by one space
RECURSIVE EachQuoted(_)
EachQuoted(mods) ==
    IF mods = <<>> THEN ""
    ELSE " \"" \o mods[1].text \o "\"" \o EachQuoted(Tail(mods))

\* C15 (as claimed): a rendered query is the base query in parentheses,
\* each modifier in double quotes in the given order, and the year clause,
\* separated by single spaces.
C15_EveryModifierQuoted ==
    \A i \in 1..Len(g_queries) :
        LET q == g_queries[i] IN
        q.year_range # <<>> =>
            q.query = "(Q)" \o EachQuoted(q.modifiers)
                          \o WidenedClauseOf(q.year_range)

\* each modifier text as it is, each preceded by one space
RECURSIVE EachAsGiven(_)
EachAsGiven(mods) ==
    IF mods = <<>> THEN ""
    ELSE " " \o mods[1].text \o EachAsGiven(Tail(mods))

\* the input of the example: modifiers m1 and m2, year range (2020, 2020)
ExampleInput ==
    /\ Len(g_modifiers.keywords) = 2
    /\ g_modifiers.keywords[1].text = <<"m", "1">>
    /\ g_modifiers.keywords[2].text = <<"m", "2">>
    /\ g_modifiers.entities = <<>>
    /\ g_year_ranges = <<<<2020, 2020>>>>

\* the raw texts given to generate_subqueries
RawInputs ==
    {g_modifiers.keywords[i].text : i \in 1..Len(g_modifiers.keywords)}
        \cup {g_modifiers.entities[i].text : i \in 1..Len(g_modifiers.entities)}

\* one word of letters and digits: no whitespace, no special character
IsPlain(chars) ==
    /\ chars # <<>>
    /\ \A i \in 1..Len(chars) : chars[i] \in {"m", "e", "1", "2"}

\* the positions of a list whose text has a character that is not a space
NotBlank(list) ==
    {i \in 1..Len(list) : \E j \in 1..Len(list[i].text) : list[i].text[j] # " "}

\* the prepared modifiers hold this text
Prepared(text) == \E m \in Range(g_all_modifiers) : m.text = text

\* the text without its i-th character
Without(chars, i) == SubSeq(chars, 1, i - 1) \o SubSeq(chars, i + 1, Len(chars))

HasDash(chars) == \E i \in 1..Len(chars) : chars[i] = "-"

\* C15 (amended): a rendered query is the base query in parentheses, each
\* modifier text as _clean_modifier left it, in the given order, and the
\* year clause when there is a year range, separated by single spaces.  A
\* cleaned text is in double quotes only when the raw text holds whitespace
\* between words or a special character; a plain word is not quoted, so
\* for Q, [m1, m2] and (2020, 2020) the query is
\* (Q) m1 m2 after:2019 before:2021.
C15_RenderedQuery ==
    /\ \A i \in 1..Len(g_queries) :
          LET q == g_queries[i] IN
          /\ q.query = "(Q)" \o EachAsGiven(q.modifiers)
                            \o (IF q.year_range = <<>> THEN ""
                                ELSE WidenedClauseOf(q.year_range))
          /\ \A j \in 1..Len(q.modifiers) :
                /\ q.modifiers[j] \in Range(g_all_modifiers)
                /\ q.modifiers[j].text # ""
    /\ g_pc # "start" =>
          /\ Len(g_all_modifiers) = Cardinality(NotBlank(g_modifiers.keywords))
                                      + Cardinality(NotBlank(g_modifiers.entities))
          /\ \A raw \in RawInputs :
                /\ IsPlain(raw) => Prepared(Text(raw))
                /\ \A i \in 1..Len(raw) :
                      (raw[i] = " " /\ IsPlain(Without(raw, i)))
                          => IF i \in {1, Len(raw)}
                             THEN Prepared(Text(Without(raw, i)))
                             ELSE Prepared("\"" \o Text(raw) \o "\"")
                /\ (HasDash(raw) /\ IsPlain(SelectSeq(raw, LAMBDA c : c # "-")))
                      => Prepared("\"" \o Text(raw) \o "\"")
                /\ raw = <<"\"">> => Prepared("\"\\\"\"")
    /\ (ExampleInput /\ g_pc = "done" /\ g_max_queries = 100) =>
          [i \in 1..Len(g_queries) |-> g_queries[i].query]
              = <<"(Q) m1 after:2019 before:2021",
                  "(Q) m2 after:2019 before:2021",
                  "(Q) m1 m2 after:2019 before:2021",
                  "(Q) after:2019 before:2021">>

\* C15 witness: the queries of the example have been generated
C15_Witness ==
    /\ ExampleInput
    /\ g_pc = "done"
    /\ Len(g_queries) = 4
    /\ g_queries[3].query = "(Q) m1 m2 after:2019 before:2021"

\* the position of the call event that opens the call event p belongs to
CallOf(p) ==
    CHOOSE k \in 1..p :
        /\ events[k].type = "call"
        /\ \A j \in (k + 1)..p : events[j].type # "call"

\* the positions of the attempts of that call up to p
AttemptsUpTo(p) == {j \in CallOf(p)..p : events[j].type = "attempt"}

\* the positions of its attempts that raised, up to p
FailuresUpTo(p) == {j \in AttemptsUpTo(p) : events[j].raised}

\* what C16 says of the log of one run
C16_Log ==
    \A p \in 1..Len(events) :
        LET e == events[p] IN
        /\ e.type = "attempt" =>
              /\ Cardinality(AttemptsUpTo(p)) <= 3
              /\ p < Len(events)
              /\ e.raised =>
                    IF Cardinality(FailuresUpTo(p)) < 3
                    THEN /\ events[p + 1] = [type |-> "sleep", seconds |-> 60]
                         /\ p + 1 < Len(events) => events[p + 2].type = "attempt"
                    ELSE events[p + 1].type = "return"
              /\ ~e.raised => events[p + 1].type = "return"
        /\ e.type = "return" =>
              /\ events[p - 1].type = "attempt"
              /\ e.result.status \in {"success", "error"}
              /\ e.result.status = "error" <=>
                    /\ Cardinality(AttemptsUpTo(p)) = 3
                    /\ FailuresUpTo(p) = AttemptsUpTo(p)
              /\ e.result.status = "error" =>
                    /\ e.result.hit_count = 0
                    /\ e.result.error = events[p - 1].message
                    /\ e.result.error = "failure 3"
              /\ e.result.status = "success" =>
                    /\ ~events[p - 1].raised
                    /\ FailuresUpTo(p) = AttemptsUpTo(p) \ {p - 1}
                    /\ e.result.error = "None"

\* C16: _count_single_query makes at most 3 attempts; after each failed
\* attempt but the third it sleeps 60 and tries again; it returns 'error',
\* hit_count 0 and the message of the last failure iff all 3 attempts
\* raised, and otherwise 'success' from the first attempt that did not
\* raise; every call that is entered returns.
C16_RetryThenReport ==
    /\ [](C16_Log /\ retry_count <= 3)
    /\ (counter_pc = "attempt") ~> (counter_pc = "returned")

\* C16 witness: a call has returned 'error' after three failures whose
\* first message is not the one reported
C16_Witness ==
    /\ counter_pc = "returned"
    /\ counter_result.status = "error"
    /\ retry_count = 3
    /\ Cardinality({p \in 1..Len(events) :
                       events[p] = [type |-> "sleep", seconds |-> 60]}) = 2
    /\ \E p \in 1..Len(events) :
          /\ events[p].type = "attempt"
          /\ events[p].message # counter_result.error

\* the attempt at p met a search iterator that ended with no result
EndedEmpty(p) ==
    events[p].type = "attempt" /\ events[p].kind \in {"none", "stop"}

\* C17: when the search iterator ends with no result, _count_single_query
\* returns at once with status 'success', hit_count 0 and no error: the
\* attempt is not counted as a retry and no error delay is slept.
C17_EmptySearchIsSuccess ==
    \A p \in 1..Len(events) :
        EndedEmpty(p) =>
            /\ ~events[p].raised
            /\ p < Len(events)
            /\ events[p + 1].type = "return"
            /\ events[p + 1].result.status = "success"
            /\ events[p + 1].result.hit_count = 0
            /\ events[p + 1].result.error = "None"
            /\ p + 1 = Len(events) =>
                  /\ counter_pc # "attempt"
                  /\ retry_count = Cardinality(AttemptsUpTo(p)) - 1
                  /\ counter_result = events[p + 1].result

\* C17 witness: after one failure, the second attempt found the iterator
\* empty and the call has returned
C17_Witness ==
    /\ counter_pc = "returned"
    /\ Len(events) >= 5
    /\ EndedEmpty(Len(events) - 1)
    /\ events[Len(events) - 1].kind = "none"
    /\ retry_count = 1
    /\ counter_result.status = "success"

\* C18 (as claimed): a counter call that ends in Error status counts as 0
\* hits and never aborts the session, whichever call it is.
C18_ErrorsDoNotAbort ==
    \A i \in 1..Len(calls) :
        calls[i].status = "error" =>
            /\ calls[i].hits = 0
            /\ pc # "raised"

\* sessions that went on after an error at each of the other call sites
C18_OtherErrorsSurvived ==
    /\ Returned
    /\ \E i \in 1..Len(calls) :
          calls[i].status = "error" /\ calls[i].site = "modifier"
    /\ \E i \in 1..Len(calls) :
          calls[i].status = "error" /\ calls[i].site = "execute"

\* events p and q open two successive calls of _count_single_query
SuccessiveCalls(p, q) ==
    /\ p < q
    /\ events[p].type = "call"
    /\ events[q].type = "call"
    /\ \A r \in (p + 1)..(q - 1) : events[r].type # "call"

\* a sleep of a length in [min_delay, max_delay] lies between p and q
RateDelayBetween(p, q) ==
    \E r \in (p + 1)..(q - 1) :
        /\ events[r].type = "sleep"
        /\ 5 <= events[r].seconds
        /\ events[r].seconds <= 15

\* C19 (as claimed): between any two successive calls of the counter, by
\* count_hits or by the _get_hit_count of the splitter, a delay from
\* [min_delay, max_delay] is slept.
C19_DelayBetweenCalls ==
    \A p, q \in 1..Len(events) :
        SuccessiveCalls(p, q) => RateDelayBetween(p, q)

\* count_hits does sleep between its queries, and not after the last
C19_CountHitsDelays ==
    caller = "count_hits" =>
        /\ \A p, q \in 1..Len(events) :
              SuccessiveCalls(p, q) => RateDelayBetween(p, q)
        /\ counter_pc = "done" =>
              \A r \in 1..Len(events) :
                  (events[r].type = "sleep" /\ events[r].seconds <= 15)
                      => \E q \in (r + 1)..Len(events) : events[q].type = "call"

\* the session has executed its whole strategy and has not returned yet
AllSplitsExecuted ==
    /\ pc = "execute"
    /\ final_queries # <<>>
    /\ Len(final_queries) = Len(strategy)

\* C20 (as claimed, in its weakest reading): intermediate state is written
\* to disk during the session, so by the time every split is executed, and
\* before split_exhaustively returns, some file has been written: a process
\* killed there does not lose the whole session.
C20_FlushedDuringSession == AllSplitsExecuted => disk # <<>>

\* the two files are written once, when the session returns its results
C20_WrittenAtTheEnd ==
    /\ disk # <<>> <=> Returned
    /\ Returned =>
          /\ Len(disk) = 2
          /\ disk[1] = [file |-> "exhaustive_split", content |-> results]
          /\ disk[2] = [file |-> "coverage_map", content |-> coverage_tracker]

\* C21 (as claimed): every modifier the effectiveness map has tested,
\* keyword or entity, has at most two words.
C21_OnlyUniAndBigramsTested ==
    /\ \A k \in 1..Len(modifier_map.keywords) :
          WordCount(modifier_map.keywords[k].modifier) <= 2
    /\ \A k \in 1..Len(modifier_map.entities) :
          WordCount(modifier_map.entities[k].modifier) <= 2

\* the keywords alone are filtered
C21_KeywordsFiltered ==
    /\ \A k \in 1..Len(prepared_modifiers.keywords) :
          WordCount(prepared_modifiers.keywords[k]) <= 2
    /\ \A k \in 1..Len(modifier_map.keywords) :
          WordCount(modifier_map.keywords[k].modifier) <= 2

\* cell.split('|') on the pieces of a cell: the texts between the bars
RECURSIVE SplitBar(_)
SplitBar(cell) ==
    IF \A i \in 1..Len(cell) : cell[i] # "|" THEN <<cell>>
    ELSE LET bar == CHOOSE i \in 1..Len(cell) :
                        cell[i] = "|" /\ \A j \in 1..(i - 1) : cell[j] # "|"
         IN <<SubSeq(cell, 1, bar - 1)>> \o SplitBar(SubSeq(cell, bar + 1, Len(cell)))

\* the modifiers read back from a CSV cell; an empty cell is the empty list
ReadModifiers(cell) == IF cell = <<>> THEN <<>> ELSE SplitBar(cell)

\* the final query records of the years that have some
ExportedRecords ==
    {<<all_results[y].year, all_results[y].results.final_queries[i]>> :
        <<y, i>> \in {yi \in (1..Len(all_results)) \X (1..MapLimit) :
            /\ "final_queries" \in DOMAIN all_results[yi[1]].results
            /\ yi[2] <= Len(all_results[yi[1]].results.final_queries)}}

\* the record r = <<year, final query>> has a row in the CSV export that
\* reads back to its query, its modifiers and its actual_hits
ReadsBack(r) ==
    \E k \in 1..Len(csv_data) :
        /\ csv_data[k].year = r[1]
        /\ csv_data[k].query_id = r[2].id
        /\ csv_data[k].query = r[2].query
        /\ csv_data[k].hits = r[2].actual_hits
        /\ ReadModifiers(csv_data[k].modifiers)
              = [i \in 1..Len(r[2].modifiers) |-> Chunks(r[2].modifiers[i])]

\* C22 (as claimed): every final query record written to the CSV export and
\* read back yields the same query, the same modifiers and the same
\* actual_hits, also when a modifier text contains '|'.
C22_CsvRoundTrip == main_pc = "done" => \A r \in ExportedRecords : ReadsBack(r)

\* the records whose modifier texts hold no '|' are read back as written
C22_BarFreeRoundTrip ==
    (main_pc = "done" /\ modifiers.keywords # <<"a|b">>) =>
        /\ ExportedRecords # {} => csv_data # <<>>
        /\ \A r \in ExportedRecords : ReadsBack(r)

\* the JSON side: the year's file holds the records as they were returned
C22_JsonKeepsRecords ==
    \A y \in 1..Len(all_results) :
        \E f \in 1..Len(disk) :
            /\ disk[f].file = "year_results"
            /\ disk[f].year = all_results[y].year
            /\ disk[f].content = all_results[y].results

\* C23: once Strategy 1 has run, at every later point of the strategy
\* remaining_coverage is base_hits minus the expected hits of the single and
\* combination candidates appended so far, the exclusion candidate does not
\* count, and no modifier text is used by two single candidates.
C23_RemainingCoverage ==
    LET singles == Singles
        combinations == Combinations
    IN
    /\ SinglesSelected =>
          remaining_coverage =
              base_hits - ExpectedUpTo(singles, Len(singles))
                        - ExpectedUpTo(combinations, Len(combinations))
    /\ pc = "strategy" => strategy = <<>>
    /\ \A i, j \in 1..Len(singles) :
          i < j => singles[i].modifiers[1] # singles[j].modifiers[1]
    /\ used_modifiers = {singles[i].modifiers[1] : i \in 1..Len(singles)}

\* a strategy with a single, a combination and the exclusion candidate, from
\* a map where a selected text is a keyword and an entity at once
C23_Witness ==
    /\ pc = "execute"
    /\ Singles # <<>>
    /\ Combinations # <<>>
    /\ strategy[Len(strategy)].type = "exclusion"
    /\ remaining_coverage > 0
    /\ \E k \in 1..Len(modifier_map.keywords), e \in 1..Len(modifier_map.entities) :
          /\ modifier_map.keywords[k].modifier = modifier_map.entities[e].modifier
          /\ modifier_map.keywords[k].modifier \in used_modifiers

\* the exclusion queries Strategy 3 can send from the current state
PossibleExclusionQueries ==
    {ExclusionQuery(Exclusions(mods)) : mods \in ExclusionChoices(used_modifiers)}

\* C24 (as claimed): the strategy is a function of the base query, the
\* effectiveness map and the oracle's answers; in particular, when Strategy 3
\* is reached, the text of the exclusion query is determined.
C24_ExclusionQueryDetermined ==
    pc = "phase3" => Cardinality(PossibleExclusionQueries) = 1

\* the candidates before the exclusion are determined: Strategy 1 is a
\* function of the map and of base_hits, and a session with at most one used
\* modifier has one exclusion query
C24_DeterminedUpToExclusion ==
    /\ (pc = "phase3" /\ Cardinality(used_modifiers) <= 1)
          => Cardinality(PossibleExclusionQueries) = 1
    /\ (pc = "phase2" /\ calls[Len(calls)].site # "combination")
          => /\ strategy = Phase1(modifier_map, base_hits).strategy
             /\ used_modifiers = Phase1(modifier_map, base_hits).used

\* generate_subqueries has computed its year ranges from start_year <= end_year
YearRangesGenerated ==
    /\ g_pc \notin {"idle", "start"}
    /\ ~g_ranges_given
    /\ g_start_year # 0
    /\ g_start_year <= g_end_year

YearsOf(range) == range[1]..range[2]

\* the ranges are non-empty, ascending and pairwise disjoint
AscendingDisjoint(ranges) ==
    /\ \A i \in 1..Len(ranges) : ranges[i][1] <= ranges[i][2]
    /\ \A i \in 1..(Len(ranges) - 1) : ranges[i][2] < ranges[i + 1][1]

\* C25 (as claimed): the generated year ranges are pairwise disjoint, in
\* ascending order, and their union is exactly start_year..end_year.
C25_YearRangesCoverInterval ==
    YearRangesGenerated =>
        /\ AscendingDisjoint(g_year_ranges)
        /\ UNION {YearsOf(g_year_ranges[i]) : i \in 1..Len(g_year_ranges)}
              = g_start_year..g_end_year

\* what holds: ascending disjoint ranges inside the interval, from
\* start_year on without a gap; end_year alone can be left out
C25_YearRangesUpToLastYear ==
    YearRangesGenerated =>
        /\ AscendingDisjoint(g_year_ranges)
        /\ g_start_year..(g_end_year - 1)
              \subseteq UNION {YearsOf(g_year_ranges[i]) : i \in 1..Len(g_year_ranges)}
        /\ UNION {YearsOf(g_year_ranges[i]) : i \in 1..Len(g_year_ranges)}
              \subseteq g_start_year..g_end_year

\* the text m was not eligible for Strategy 1: every count the map holds
\* for it, as a keyword or as an entity, is 0 or at least target_size
NotEligible(m) ==
    \A e \in MapEntries : e.modifier = m => (e.hits = 0 \/ e.hits >= target_size)

\* Strategy 2 is running or has tested a pair
Phase2Ran == pc = "phase2" \/ \E i \in 1..Len(calls) : calls[i].site = "combination"

\* C26: whenever Phase 2 runs, Phase 1 has selected every eligible modifier,
\* and every keyword and entity Phase 2 combines is a modifier that was not
\* selected and whose count in the map is 0 or >= target_size.
C26_Phase2CombinesIneligibleOnly ==
    LET combinations == Combinations
        selected == SingleTexts
    IN
    /\ Phase2Ran => EligibleTexts \subseteq selected
    /\ pc = "phase2" =>
          \A m \in Range(UnusedKeywords) \cup Range(UnusedEntities) :
              m \notin selected /\ NotEligible(m)
    /\ \A i \in 1..Len(combinations) :
          \A k \in 1..2 :
              /\ combinations[i].modifiers[k] \notin selected
              /\ NotEligible(combinations[i].modifiers[k])

\* Phase 2 has combined a keyword counted 0 with an entity counted at least
\* target_size, after Phase 1 selected a modifier
C26_Witness ==
    /\ Singles # <<>>
    /\ \E i \in 1..Len(strategy) :
          /\ strategy[i].type = "combination"
          /\ \E e \in MapEntries :
                e.modifier = strategy[i].modifiers[1] /\ e.hits = 0
          /\ \E e \in MapEntries :
                e.modifier = strategy[i].modifiers[2] /\ e.hits >= target_size

\* the session of the y-th processed year returned early: its base query
\* was at or below target_size and is its only query
ReturnedComplete(y) == "status" \in DOMAIN all_results[y].results

\* C27 (as claimed): every processed year contributes at least one query to
\* total_queries_generated and to the CSV export, and a year whose base query
\* is its only query contributes that query's hits to total_coverage.
C27_EveryYearInReport ==
    main_pc = "done" =>
        /\ final_report.total_queries_generated >= Len(all_results)
        /\ \A y \in 1..Len(all_results) :
              /\ \E k \in 1..Len(csv_data) : csv_data[k].year = all_results[y].year
              /\ ReturnedComplete(y) =>
                    TotalCoverage(<<all_results[y]>>)
                        = all_results[y].results.total_hits

\* the years that were split are counted: the report adds up their final
\* queries and their coverage, and the CSV has one row per final query
C27_SplitYearsInReport ==
    main_pc = "done" =>
        /\ Len(all_results) = end_year - start_year + 1
        /\ Len(csv_data) = final_report.total_queries_generated
        /\ \A y \in 1..Len(all_results) :
              ~ReturnedComplete(y) =>
                  /\ TotalQueries(<<all_results[y]>>)
                        = Len(all_results[y].results.final_queries)
                  /\ TotalCoverage(<<all_results[y]>>)
                        = SumOf(all_results[y].results.final_queries, "actual_hits")
        /\ \A r \in ExportedRecords :
              \E k \in 1..Len(csv_data) :
                  csv_data[k].year = r[1] /\ csv_data[k].query_id = r[2].id

\* the coverage map file written by the session that has just returned
LastCoverageMap ==
    disk[CHOOSE f \in 1..Len(disk) :
            /\ disk[f].file = "coverage_map"
            /\ \A g \in (f + 1)..Len(disk) : disk[g].file # "coverage_map"].content

\* one entry per final query: its query string, its actual hits, its modifiers
EntriesOf(queries) ==
    {[query |-> queries[i].query, hits |-> queries[i].actual_hits,
      modifiers |-> queries[i].modifiers] : i \in 1..Len(queries)}

\* a session has returned through the normal return and has written its files
SessionWritten == pc = "done" /\ "final_queries" \in DOMAIN results

\* C28 (as claimed): the coverage map written at the end of a session holds
\* exactly one entry per final query of that session, also when the splitter
\* has run sessions for earlier years before.
C28_CoverageMapOfTheSession ==
    SessionWritten =>
        /\ LastCoverageMap = EntriesOf(final_queries)
        /\ Cardinality(LastCoverageMap) = Len(final_queries)

\* the first session of a splitter writes the map of its own final queries
C28_FirstSessionMap ==
    (SessionWritten /\ all_results = <<>>) =>
        /\ LastCoverageMap = EntriesOf(final_queries)
        /\ Cardinality(LastCoverageMap) = Len(final_queries)

\* split_exhaustively returned {'status': 'complete', ..., 'coverage': 100.0}
ReportedComplete ==
    /\ "status" \in DOMAIN results
    /\ results.status = "complete"
    /\ results.coverage = 100

\* C29 (as claimed): a session is reported complete with coverage 100 only
\* when the count of the base query came from a successful response of the
\* oracle.
C29_CompleteOnlyAfterSuccess ==
    ReportedComplete =>
        /\ calls[1].site = "base"
        /\ calls[1].status = "success"

\* a session reported complete made one call, for the base query, and
\* reports the count that call returned
C29_CompleteReportsBaseCount ==
    ReportedComplete =>
        /\ Len(calls) = 1
        /\ calls[1].site = "base"
        /\ results.total_hits = calls[1].hits
        /\ calls[1].hits <= target_size
        /\ calls[1].status = "error" => calls[1].hits = 0

\* the target sizes a splitter can be given around the counter's limit
TargetSizes == {0, DefaultTargetSize, ResultLimit, ResultLimit + 1}

\* C30: every hit count _count_single_query returns is in 0..1000, and 0
\* when the call ends in error; so the count _get_hit_count hands to the
\* splitter exceeds a target size only if that target is under 1000, and
\* then lies in target_size + 1 .. 1000.
C30_HitCountsUpTo1000 ==
    /\ counter_result.hit_count \in 0..ResultLimit
    /\ \A p \in 1..Len(events) :
          events[p].type = "return" =>
              LET h == HitCount(events[p].result) IN
              /\ h = events[p].result.hit_count
              /\ h \in 0..ResultLimit
              /\ events[p].result.status = "error" => h = 0
              /\ events[p].result.status \in {"success", "error"}
              /\ \A t \in TargetSizes :
                    h > t => (t < ResultLimit /\ h \in (t + 1)..ResultLimit)

\* the counter, called by _get_hit_count, has returned the limit of 1000
C30_Witness ==
    /\ caller = "_get_hit_count"
    /\ counter_pc = "returned"
    /\ events[Len(events)].type = "return"
    /\ events[Len(events)].result.hit_count = ResultLimit
    /\ events[Len(events)].result.hit_count > DefaultTargetSize

\* a session on ScholarHitsCounter goes on to splitting only with
\* target_size < base_hits <= 1000
C30_SplitsOnlyUpTo1000 ==
    (oracle.base = ScholarCounts /\ pc \notin {"start", "done"}) =>
        (target_size < base_hits /\ base_hits <= 1000)

====
